---- MODULE Spec2Model ----
(***************************************************************************)
(* Settlement engine of the Ark wallet SDK: Wallet.settle                  *)
(* (src/src/core/wallet.ts) driven by the provider's settlement event      *)
(* stream (src/unnamed/part_003).  One settle call is modelled as a        *)
(* process whose position pc is the await it is suspended at; the ping     *)
(* timer and the provider are the environment.                             *)
(***************************************************************************)
EXTENDS Integers, Sequences, FiniteSets, TLC

\* ------------------------------------------------------------------ bounds
MaxEvents == 5
MaxPings == 2
MaxReads == 2
MaxConnections == 2
MaxChunk == 3
MaxBytes == 4
MaxAmount == 2
MaxLocktime == 1
MaxInputs == 2
MaxPsbtInputs == 2
MaxRows == 2
MaxCols == 2
MaxFeeRate == 2500
MaxCoins == 2
MaxSubConnections == 3
MaxCallbacks == 3
MaxUnsubscribes == 2
MaxRequests == 2
MaxSettleEvents == 1

\* ------------------------------------------------------- values and types
RequestIds == {"req1", "req2"}
RoundIds == {"round1", "round2"}
Txids == {"aa", "bb"}
Reasons == {"timeout", "aborted"}

\* enum SettlementEventType
Finalization == "finalization"
Finalized == "finalized"
Failed == "failed"
SigningStart == "signing_start"
SigningNoncesGenerated == "signing_nonces_generated"
BatchStarted == "batch_started"
BatchTree == "batch_tree"
BatchTreeSignature == "batch_tree_signature"

SettlementEventType ==
    { Finalization, Finalized, Failed, SigningStart, SigningNoncesGenerated,
      BatchStarted, BatchTree, BatchTreeSignature }

\* the events the provider's parser can yield (fields a type does not have are "")
SettlementEvent ==
    { [type |-> t, id |-> i, reason |-> "", roundTxid |-> ""] :
        t \in SettlementEventType \ {Failed, Finalized}, i \in RoundIds }
    \cup { [type |-> Failed, id |-> i, reason |-> r, roundTxid |-> ""] :
        i \in RoundIds, r \in Reasons }
    \cup { [type |-> Finalized, id |-> i, reason |-> "", roundTxid |-> x] :
        i \in RoundIds, x \in Txids }

NoEvent == [type |-> "none", id |-> "", reason |-> "", roundTxid |-> ""]

\* the four-step sequence of a settlement, and the other event types
StepSequence == << SigningStart, SigningNoncesGenerated, Finalization, Finalized >>
SequenceTypes == { StepSequence[i] : i \in 1..4 }
BatchTypes == { BatchStarted, BatchTree, BatchTreeSignature }

VARIABLES
    pc,             \* the await settle is suspended at, or idle / done / failed
    step,           \* let step: SettlementEventType | undefined
    signingSession, \* let signingSession: "undefined" or "present"
    sessionStage,   \* last method called on the TreeSignerSession object
    pingRunning,    \* let pingRunning
    interval,       \* TRUE while the setInterval timer is registered
    requestId,      \* requestId returned by registerInputsForNextRound
    pingsSent,      \* number of ping calls started
    pingsInFlight,  \* ping promises not yet settled
    pingIds,        \* the request ids pings were sent with
    pingRejected,   \* some ping promise was rejected
    pending,        \* the provider RPC the body of settle is awaiting
    trace,          \* provider calls, their returns, and the accepted events
    handled,        \* events of the four-step sequence whose case completed
    cur,            \* the event last read from the stream
    delivered,      \* number of events read from the stream
    progress,       \* how much of StepSequence the stream has delivered in order
    failedSeen,     \* the stream delivered a Failed event
    notified,       \* the calls of eventCallback: their number and the last event passed
    result,         \* the value settle returned
    error           \* the message of the error settle threw

VARIABLES
    vtxoTreeSigningKey, \* const vtxoTreeSigningKey: "none", "live" or "zeroed"
    cancelled,      \* the caller of settle has fired its cancellation signal
    fin,            \* one run of handleSettlementFinalizationEvent
    fft,            \* one application of buildForfeitTx
    gen,            \* one RestArkProvider.getEventStream generator
    reg,            \* one call of registerInputsForNextRound
    two,            \* two settle calls running on one wallet
    mat,            \* one matrix through encodeMatrix and decodeMatrix
    prs,            \* one record through parseSettlementEvent
    snd,            \* one call of sendBitcoin
    bal,            \* one call of getBalance
    dfl,            \* settle() building its default params
    sub,            \* one subscription of subscribeToEvents
    sww             \* the requests of one ServiceWorkerWallet

\* the state of the components a specification does not run
last == << dfl, sub, sww >>
later == << two, mat, prs, snd, bal, last >>
others == << fin, fft, gen, reg, later >>
Off == [pc |-> "off"]
LastOff == dfl = Off /\ sub = Off /\ sww = Off
LaterOff == two = Off /\ mat = Off /\ prs = Off /\ snd = Off /\ bal = Off /\ LastOff
OthersOff == fin = Off /\ fft = Off /\ gen = Off /\ reg = Off /\ LaterOff

vars == << pc, step, signingSession, sessionStage, pingRunning, interval,
           requestId, pingsSent, pingsInFlight, pingIds, pingRejected, pending,
           trace, handled, cur, delivered, progress, failedSeen, notified, result,
           error, vtxoTreeSigningKey, cancelled, fin, fft, gen, reg,
           two, mat, prs, snd, bal, dfl, sub, sww >>

\* ------------------------------------------------------- helpers of settle

Call(name, arg) == [kind |-> "call", name |-> name, arg |-> arg, ok |-> TRUE]
Return(name, ok) == [kind |-> "return", name |-> name, arg |-> "", ok |-> ok]
Accept(e) == [kind |-> "event", name |-> e.type, arg |-> e.id, ok |-> TRUE]

\* const stopPing = () => { if (pingRunning) { pingRunning = false; clearInterval(interval) } }
\* a timer is the pair of the flag and of the registered interval
StopPingKeepsInterval(tm) == [pingRunning |-> FALSE, interval |-> tm.interval]
stopPing(tm) ==
    IF tm.pingRunning THEN [pingRunning |-> FALSE, interval |-> FALSE] ELSE tm

Timer == [pingRunning |-> pingRunning, interval |-> interval]

\* the guard of each case of the switch on event.type: TRUE when the case
\* goes on, FALSE when it hits its `continue`.  An event type without a
\* case leaves the switch and reaches `step = event.type`.
AcceptsFinalizedAfterSigning(t, s) ==
    CASE t = Failed -> s # "undefined"
      [] t = SigningStart -> s = "undefined"
      [] t = SigningNoncesGenerated -> s = SigningStart
      [] t = Finalization -> s = SigningNoncesGenerated
      [] t = Finalized -> s \in {SigningNoncesGenerated, Finalization}
      [] OTHER -> TRUE
AcceptsDuplicateNonces(t, s) ==
    CASE t = Failed -> s # "undefined"
      [] t = SigningStart -> s = "undefined"
      [] t = SigningNoncesGenerated -> s \in {SigningStart, SigningNoncesGenerated}
      [] t = Finalization -> s = SigningNoncesGenerated
      [] t = Finalized -> s = Finalization
      [] OTHER -> TRUE
AcceptsFinalizationEarly(t, s) ==
    CASE t = Failed -> s # "undefined"
      [] t = SigningStart -> s = "undefined"
      [] t = SigningNoncesGenerated -> s = SigningStart
      [] t = Finalization -> s \in {SigningStart, SigningNoncesGenerated}
      [] t = Finalized -> s = Finalization
      [] OTHER -> TRUE
AcceptsFailedOnlyWhileSigning(t, s) ==
    CASE t = Failed -> s = SigningStart
      [] t = SigningStart -> s = "undefined"
      [] t = SigningNoncesGenerated -> s = SigningStart
      [] t = Finalization -> s = SigningNoncesGenerated
      [] t = Finalized -> s = Finalization
      [] OTHER -> TRUE
AcceptsNoncesBeforeSigningStart(t, s) ==
    CASE t = Failed -> s # "undefined"
      [] t = SigningStart -> s = "undefined"
      [] t = SigningNoncesGenerated -> s \in {"undefined", SigningStart}
      [] t = Finalization -> s = SigningNoncesGenerated
      [] t = Finalized -> s = Finalization
      [] OTHER -> TRUE
AcceptsSigningStartAgain(t, s) ==
    CASE t = Failed -> s # "undefined"
      [] t = SigningStart -> s \in {"undefined", SigningStart}
      [] t = SigningNoncesGenerated -> s = SigningStart
      [] t = Finalization -> s = SigningNoncesGenerated
      [] t = Finalized -> s = Finalization
      [] OTHER -> TRUE
Accepts(t, s) ==
    CASE t = Failed -> s # "undefined"
      [] t = SigningStart -> s = "undefined"
      [] t = SigningNoncesGenerated -> s = SigningStart
      [] t = Finalization -> s = SigningNoncesGenerated
      [] t = Finalized -> s = Finalization
      [] OTHER -> TRUE

\* if (eventCallback) { eventCallback(event) }: the first statement of the
\* loop body, for an event read at step s
eventCallbackWhenHandled(n, e, s) ==
    IF Accepts(e.type, s) THEN [count |-> n.count + 1, last |-> e] ELSE n
eventCallback(n, e, s) == [count |-> n.count + 1, last |-> e]

\* the cases that call stopPing() once their guard has passed
CallsStopPing(t) ==
    t \in {Failed, SigningStart, SigningNoncesGenerated, Finalization}

\* where the body of settle stands after issuing a provider call: it awaits
\* the call, so it is suspended at it until the call settles
NotAwaited(name) == IF name = "submitTreeNonces" THEN "next" ELSE name
Await(name) == name

\* what a rejected provider call does to the body of settle: no call of
\* settle is wrapped in a try or a catch, so the rejection is thrown
RejectionSwallowed(name) == IF name = "submitTreeSignatures" THEN "next" ELSE "failed"
OnRejected(name) == "failed"

\* the stream's progress through StepSequence (greedy in-order match)
Advance(p, t) == IF p < 4 /\ t = StepSequence[p + 1] THEN p + 1 ELSE p

\* ------------------------------------------------------------------- Init
SettleIdle ==
    /\ pc = "idle"
    /\ step = "undefined"
    /\ signingSession = "undefined"
    /\ sessionStage = "none"
    /\ pingRunning = FALSE
    /\ interval = FALSE
    /\ requestId = "none"
    /\ pingsSent = 0
    /\ pingsInFlight = 0
    /\ pingIds = {}
    /\ pingRejected = FALSE
    /\ pending = "none"
    /\ trace = << >>
    /\ handled = << >>
    /\ cur = NoEvent
    /\ delivered = 0
    /\ progress = 0
    /\ failedSeen = FALSE
    /\ notified = [count |-> 0, last |-> NoEvent]
    /\ result = "none"
    /\ error = "none"
    /\ vtxoTreeSigningKey = "none"
    /\ cancelled = FALSE

Init == SettleIdle /\ OthersOff

settleVars == << pc, step, signingSession, sessionStage, pingRunning, interval,
                requestId, pingsSent, pingsInFlight, pingIds, pingRejected,
                pending, trace, handled, cur, delivered, progress, failedSeen,
                notified, result, error, vtxoTreeSigningKey, cancelled >>

pingVars == << pingsSent, pingsInFlight, pingIds, pingRejected >>
streamVars == << cur, delivered, progress, failedSeen, notified >>
sessionVars == << signingSession, sessionStage >>
timerVars == << pingRunning, interval >>

\* settle throws: the promise is rejected with msg
Throw(msg) ==
    /\ pc' = "failed"
    /\ error' = msg
    /\ pending' = "none"
    /\ result' = result

\* the body issues the provider call name(arg) and awaits it
Issue(name, arg) ==
    /\ pc' = Await(name)
    /\ pending' = name
    /\ UNCHANGED << result, error >>

\* the awaited provider call name is rejected
Rejected(name) ==
    /\ pc' = OnRejected(name)
    /\ error' = IF OnRejected(name) = "failed" THEN "provider" ELSE error
    /\ pending' = "none"
    /\ result' = result
    /\ trace' = Append(trace, Return(name, FALSE))

\* the end of the loop body, `step = event.type`, and the next read of the stream
EndOfCase ==
    /\ step' = cur.type
    /\ handled' = Append(handled, cur)
    /\ pc' = "next"
    /\ pending' = "none"
    /\ UNCHANGED << result, error >>

\* ---------------------------------------------------------------- actions

\* settle(params): up to the first await, registerInputsForNextRound
Settle ==
    /\ pc = "idle"
    /\ Issue("registerInputsForNextRound", "")
    /\ trace' = Append(trace, Call("registerInputsForNextRound", ""))
    /\ UNCHANGED << step, sessionVars, timerVars, requestId, pingVars, handled,
                    streamVars >>
    \* const vtxoTreeSigningKey = secp256k1.utils.randomPrivateKey()
    /\ vtxoTreeSigningKey' = "live"
    /\ UNCHANGED << cancelled, others >>

\* registerInputsForNextRound settles; on success registerOutputsForNextRound
\* is called with the requestId it returned
RegisterInputsReturn ==
    /\ pending = "registerInputsForNextRound"
    /\ \E ok \in BOOLEAN, r \in RequestIds :
        IF ok
        THEN /\ requestId' = r
             /\ Issue("registerOutputsForNextRound", r)
             /\ trace' = trace \o << Return("registerInputsForNextRound", TRUE),
                                     Call("registerOutputsForNextRound", r) >>
        ELSE /\ Rejected("registerInputsForNextRound")
             /\ UNCHANGED requestId
    /\ UNCHANGED << step, sessionVars, timerVars, pingVars, handled, streamVars >>
    /\ UNCHANGED << vtxoTreeSigningKey, cancelled, others >>

\* registerOutputsForNextRound settles; on success setInterval, getEventStream()
\* and the call of getInfo
RegisterOutputsReturn ==
    /\ pending = "registerOutputsForNextRound"
    /\ \E ok \in BOOLEAN :
        IF ok
        THEN /\ interval' = TRUE
             /\ pingRunning' = TRUE
             /\ Issue("getInfo", "")
             /\ trace' = trace \o << Return("registerOutputsForNextRound", TRUE),
                                     Call("getInfo", "") >>
        ELSE /\ Rejected("registerOutputsForNextRound")
             /\ UNCHANGED timerVars
    /\ UNCHANGED << step, sessionVars, requestId, pingVars, handled, streamVars >>
    /\ UNCHANGED << vtxoTreeSigningKey, cancelled, others >>

\* getInfo settles; on success the for await loop asks the stream for an event
GetInfoReturn ==
    /\ pending = "getInfo"
    /\ \E ok \in BOOLEAN :
        IF ok
        THEN /\ pc' = "next"
             /\ pending' = "none"
             /\ trace' = Append(trace, Return("getInfo", TRUE))
             /\ UNCHANGED << result, error >>
        ELSE Rejected("getInfo")
    /\ UNCHANGED << step, sessionVars, timerVars, requestId, pingVars, handled,
                    streamVars >>
    /\ UNCHANGED << vtxoTreeSigningKey, cancelled, others >>

\* the interval fires: this.arkProvider?.ping(requestId).catch(stopPing)
Tick ==
    /\ interval
    /\ pingsSent < MaxPings
    /\ pingsSent' = pingsSent + 1
    /\ pingsInFlight' = pingsInFlight + 1
    /\ pingIds' = pingIds \cup {requestId}
    /\ UNCHANGED << pc, step, sessionVars, timerVars, requestId, pingRejected,
                    pending, trace, handled, streamVars, result, error >>
    /\ UNCHANGED << vtxoTreeSigningKey, cancelled, others >>

\* a ping settles; a rejected ping runs stopPing
PingReturn ==
    /\ pingsInFlight > 0
    /\ pingsInFlight' = pingsInFlight - 1
    /\ \E ok \in BOOLEAN :
        IF ok
        THEN UNCHANGED << timerVars, pingRejected >>
        ELSE /\ pingRunning' = stopPing(Timer).pingRunning
             /\ interval' = stopPing(Timer).interval
             /\ pingRejected' = TRUE
    /\ UNCHANGED << pc, step, sessionVars, requestId, pingsSent, pingIds, pending,
                    trace, handled, streamVars, result, error >>
    /\ UNCHANGED << vtxoTreeSigningKey, cancelled, others >>

\* handleSettlementSigningEvent up to its await: the stage of the signing
\* session once validateVtxoTree and the shared output check have run; the
\* session is constructed, and its nonces generated, only past both
TreeSignerSessionBeforeValidation(valid, stage) == "getNonces"
TreeSignerSession(valid, stage) == IF valid THEN "getNonces" ELSE stage

\* the stream yields an event: eventCallback, then the switch on event.type up
\* to its continue, throw, return or first await.  valid is the outcome of the
\* synchronous checks of the handler (validateVtxoTree, the shared output).
StreamYield ==
    /\ pc = "next"
    /\ delivered < MaxEvents
    /\ \E e \in SettlementEvent, valid \in BOOLEAN :
        /\ cur' = e
        /\ delivered' = delivered + 1
        /\ notified' = eventCallback(notified, e, step)
        /\ progress' = Advance(progress, e.type)
        /\ failedSeen' = (failedSeen \/ e.type = Failed)
        /\ IF ~Accepts(e.type, step)
           THEN \* continue
                UNCHANGED << pc, step, sessionVars, timerVars, pending, trace,
                             handled, result, error >>
           ELSE /\ IF CallsStopPing(e.type)
                   THEN /\ pingRunning' = stopPing(Timer).pingRunning
                        /\ interval' = stopPing(Timer).interval
                   ELSE UNCHANGED timerVars
                /\ CASE e.type = Failed ->
                          /\ Throw(e.reason)
                          /\ trace' = Append(trace, Accept(e))
                          /\ UNCHANGED << step, sessionVars, handled >>
                     [] e.type = SigningStart ->
                          IF valid
                          THEN \* new TreeSignerSession, getNonces, submitTreeNonces
                               /\ sessionStage' = TreeSignerSession(valid, sessionStage)
                               /\ Issue("submitTreeNonces", e.id)
                               /\ trace' = trace \o << Accept(e),
                                                       Call("submitTreeNonces", e.id) >>
                               /\ UNCHANGED << step, signingSession, handled >>
                          ELSE /\ Throw("validation")
                               /\ sessionStage' = TreeSignerSession(valid, sessionStage)
                               /\ trace' = Append(trace, Accept(e))
                               /\ UNCHANGED << step, signingSession, handled >>
                     [] e.type = SigningNoncesGenerated ->
                          IF signingSession = "undefined"
                          THEN /\ Throw("Signing session not found")
                               /\ trace' = Append(trace, Accept(e))
                               /\ UNCHANGED << step, sessionVars, handled >>
                          ELSE \* setAggregatedNonces, sign, submitTreeSignatures
                               /\ sessionStage' = "sign"
                               /\ Issue("submitTreeSignatures", e.id)
                               /\ trace' = trace \o << Accept(e),
                                                       Call("submitTreeSignatures", e.id) >>
                               /\ UNCHANGED << step, signingSession, handled >>
                     [] e.type = Finalization ->
                          /\ Issue("getVirtualCoins", "")
                          /\ trace' = trace \o << Accept(e), Call("getVirtualCoins", "") >>
                          /\ UNCHANGED << step, sessionVars, handled >>
                     [] e.type = Finalized ->
                          \* return event.roundTxid
                          /\ pc' = "done"
                          /\ result' = e.roundTxid
                          /\ handled' = Append(handled, e)
                          /\ trace' = Append(trace, Accept(e))
                          /\ UNCHANGED << step, sessionVars, pending, error >>
                     [] OTHER ->
                          \* no case: step = event.type
                          /\ step' = e.type
                          /\ UNCHANGED << pc, sessionVars, pending, trace, handled,
                                          result, error >>
    /\ UNCHANGED << requestId, pingVars >>
    /\ UNCHANGED << vtxoTreeSigningKey, cancelled, others >>

\* reading the stream fails: the error leaves the for await loop and settle
StreamThrow ==
    /\ pc = "next"
    /\ Throw("stream")
    /\ UNCHANGED << step, sessionVars, timerVars, requestId, pingVars, trace,
                    handled, streamVars >>
    /\ UNCHANGED << vtxoTreeSigningKey, cancelled, others >>

\* what follows the for await loop: throw new Error("Settlement failed")
LoopExitReturns(s) == [returns |-> TRUE, error |-> "none"]
LoopExit(s) == [returns |-> FALSE, error |-> "Settlement failed"]

\* the stream completes: the loop ends and settle throws "Settlement failed"
StreamEnd ==
    /\ pc = "next"
    /\ IF LoopExit(step).returns
       THEN /\ pc' = "done"
            /\ pending' = "none"
            /\ UNCHANGED << result, error >>
       ELSE Throw(LoopExit(step).error)
    /\ UNCHANGED << step, sessionVars, timerVars, requestId, pingVars, trace,
                    handled, streamVars >>
    /\ UNCHANGED << vtxoTreeSigningKey, cancelled, others >>

\* submitTreeNonces settles: handleSettlementSigningEvent returns the session,
\* which is assigned to signingSession
SubmitTreeNoncesReturn ==
    /\ pending = "submitTreeNonces"
    /\ \E ok \in BOOLEAN :
        IF ok
        THEN /\ signingSession' = "present"
             /\ EndOfCase
             /\ trace' = Append(trace, Return("submitTreeNonces", TRUE))
        ELSE /\ Rejected("submitTreeNonces")
             /\ UNCHANGED << step, signingSession, handled >>
    /\ UNCHANGED << sessionStage, timerVars, requestId, pingVars, streamVars >>
    /\ UNCHANGED << vtxoTreeSigningKey, cancelled, others >>

\* submitTreeSignatures settles
SubmitTreeSignaturesReturn ==
    /\ pending = "submitTreeSignatures"
    /\ \E ok \in BOOLEAN :
        IF ok
        THEN /\ EndOfCase
             /\ trace' = Append(trace, Return("submitTreeSignatures", TRUE))
        ELSE /\ Rejected("submitTreeSignatures")
             /\ UNCHANGED << step, handled >>
    /\ UNCHANGED << sessionVars, timerVars, requestId, pingVars, streamVars >>
    /\ UNCHANGED << vtxoTreeSigningKey, cancelled, others >>

\* getVirtualCoins settles inside handleSettlementFinalizationEvent: the loop
\* over the inputs (validateConnectorsTree, the forfeits, the settlement
\* inputs) is synchronous and may throw; then submitSignedForfeitTxs is called
GetVirtualCoinsReturn ==
    /\ pending = "getVirtualCoins"
    /\ \E ok \in BOOLEAN, valid \in BOOLEAN :
        IF ok
        THEN IF valid
             THEN /\ Issue("submitSignedForfeitTxs", "")
                  /\ trace' = trace \o << Return("getVirtualCoins", TRUE),
                                          Call("submitSignedForfeitTxs", "") >>
             ELSE /\ Throw("validation")
                  /\ trace' = Append(trace, Return("getVirtualCoins", TRUE))
        ELSE Rejected("getVirtualCoins")
    /\ UNCHANGED << step, sessionVars, timerVars, requestId, pingVars, handled,
                    streamVars >>
    /\ UNCHANGED << vtxoTreeSigningKey, cancelled, others >>

\* submitSignedForfeitTxs settles
SubmitSignedForfeitTxsReturn ==
    /\ pending = "submitSignedForfeitTxs"
    /\ \E ok \in BOOLEAN :
        IF ok
        THEN /\ EndOfCase
             /\ trace' = Append(trace, Return("submitSignedForfeitTxs", TRUE))
        ELSE /\ Rejected("submitSignedForfeitTxs")
             /\ UNCHANGED << step, handled >>
    /\ UNCHANGED << sessionVars, timerVars, requestId, pingVars, streamVars >>
    /\ UNCHANGED << vtxoTreeSigningKey, cancelled, others >>

Next ==
    \/ Settle
    \/ RegisterInputsReturn
    \/ RegisterOutputsReturn
    \/ GetInfoReturn
    \/ Tick
    \/ PingReturn
    \/ StreamYield
    \/ StreamThrow
    \/ StreamEnd
    \/ SubmitTreeNoncesReturn
    \/ SubmitTreeSignaturesReturn
    \/ GetVirtualCoinsReturn
    \/ SubmitSignedForfeitTxsReturn

Spec == Init /\ [][Next]_vars

\* the caller fires its cancellation signal during a settlement.  settle takes
\* (params, eventCallback) only and calls getEventStream() without a signal:
\* no statement of settle reads the signal.
Cancel ==
    /\ pc \notin {"idle", "done", "failed"}
    /\ ~cancelled
    /\ cancelled' = TRUE
    /\ UNCHANGED << pc, step, sessionVars, timerVars, requestId, pingVars,
                    pending, trace, handled, streamVars, result, error,
                    vtxoTreeSigningKey, others >>

CancelNext == Next \/ Cancel

CancelSpec == Init /\ [][CancelNext]_vars

\* ------------------------------------------- RestArkProvider.getEventStream

\* the bytes of the response body: "a" stands for a known event key of a
\* record, "u" for any other content of it, "nl" for the newline
Chars == {"a", "u", "nl"}
Chunks == UNION { [1..n -> Chars] : n \in 1..MaxChunk }

RECURSIVE SplitAcc(_, _, _)
SplitAcc(s, line, acc) ==
    IF s = << >> THEN Append(acc, line)
    ELSE IF Head(s) = "nl" THEN SplitAcc(Tail(s), << >>, Append(acc, line))
    ELSE SplitAcc(Tail(s), Append(line, Head(s)), acc)
\* buffer.split("\n"): the complete lines, then the partial last line
Split(s) == SplitAcc(s, << >>, << >>)

\* parseSettlementEvent(data.result): the event of a record with a known key;
\* otherwise console.warn and null
parseSettlementEventThrows(line) ==
    IF \E k \in 1..Len(line) : line[k] = "a" THEN "event" ELSE "throw"
parseSettlementEvent(line) ==
    IF \E k \in 1..Len(line) : line[k] = "a" THEN "event" ELSE "null"

\* the for loop over the complete lines up to its next yield or throw:
\* `if (!line) continue` and `if (event) yield event`
RECURSIVE NextRecord(_)
NextRecord(ls) ==
    IF ls = << >> THEN << >>
    ELSE IF Head(ls) = << >> \/ parseSettlementEvent(Head(ls)) = "null"
    THEN NextRecord(Tail(ls))
    ELSE ls

\* buffer += decoder.decode(value, { stream: true })
BufferReset(buffer, chunk) == chunk
Buffered(buffer, chunk) == buffer \o chunk

\* catch (error): an AbortError leaves the loop and the generator completes,
\* any other error is thrown to the consumer
OnErrorReconnect(kind) == IF kind = "AbortError" THEN "done" ELSE "retry"
OnError(kind) == IF kind = "AbortError" THEN "done" ELSE "threw"

GenStart ==
    [ pc |-> "start", aborted |-> FALSE, connections |-> 0, reads |-> 0,
      buffer |-> << >>, rest |-> << >>, partial |-> << >>, yielded |-> << >>,
      log |-> << >>, received |-> << >>, skipped |-> 0 ]

GenInit ==
    /\ SettleIdle
    /\ fin = Off /\ fft = Off /\ reg = Off /\ LaterOff
    /\ gen = GenStart

genFrame == << settleVars, fin, fft, reg, later >>

\* while (!signal?.aborted) { ... await fetch(url, { signal }) }
Connect(g) ==
    IF g.aborted
    THEN [g EXCEPT !.pc = "done"]
    ELSE [g EXCEPT !.pc = "fetch", !.connections = @ + 1, !.buffer = << >>,
                   !.rest = << >>, !.partial = << >>, !.received = << >>]

\* the inner `while (!signal?.aborted)`: the next reader.read(), or, once
\* aborted, the exit of both loops
ReadOn(g) ==
    IF g.aborted THEN [g EXCEPT !.pc = "done"] ELSE [g EXCEPT !.pc = "read"]

\* the for loop over the lines left: yield the next event, or reach
\* `buffer = lines[lines.length - 1]` and the loop condition
Lines(g, ls) ==
    LET todo == NextRecord(ls)
        passed == Len(ls) - Len(todo)
        h == [g EXCEPT !.skipped = @ + Cardinality({ k \in 1..passed : ls[k] # << >> })]
    IN IF todo = << >>
       THEN ReadOn([h EXCEPT !.buffer = g.partial, !.rest = << >>])
       ELSE IF parseSettlementEvent(Head(todo)) = "throw"
       THEN [h EXCEPT !.pc = OnError("parse"), !.rest = << >>]
       ELSE [h EXCEPT !.pc = "yield",
                      !.rest = Tail(todo),
                      !.yielded = Append(@, [line |-> Head(todo),
                                             conn |-> g.connections])]

\* an error reaches the catch of the outer loop
Caught(g, kind) ==
    IF OnError(kind) = "retry"
    THEN Connect(g)
    ELSE [g EXCEPT !.pc = OnError(kind)]

\* the consumer asks for the next event: the generator starts, or resumes
\* after its yield
GenNextEvent ==
    /\ gen.pc \in {"start", "yield"}
    /\ gen' = IF gen.pc = "start" THEN Connect(gen) ELSE Lines(gen, gen.rest)
    /\ UNCHANGED genFrame

\* fetch settles: the response, or a rejection; an aborted signal rejects it
\* with an AbortError
GenFetchReturn ==
    /\ gen.pc = "fetch"
    /\ \E out \in {"ok", "bad_status", "null_body", "network_error"} :
        LET o == IF gen.aborted THEN "AbortError" ELSE out
            g == [gen EXCEPT !.log = Append(@, o)]
        IN gen' = IF o = "ok" THEN ReadOn(g) ELSE Caught(g, o)
    /\ UNCHANGED genFrame

\* reader.read() settles: a chunk, the end of the connection, or a rejection
GenReadReturn ==
    /\ gen.pc = "read"
    /\ \/ /\ gen.aborted
          /\ gen' = Caught([gen EXCEPT !.log = Append(@, "AbortError")], "AbortError")
       \/ /\ ~gen.aborted
          /\ gen.reads < MaxReads
          /\ \E c \in Chunks :
                /\ Len(gen.received) + Len(c) <= MaxBytes
                /\ LET ls == Split(Buffered(gen.buffer, c))
                       g == [gen EXCEPT !.log = Append(@, "chunk"),
                                        !.reads = @ + 1,
                                        !.received = @ \o c,
                                        !.buffer = Buffered(gen.buffer, c),
                                        !.partial = ls[Len(ls)]]
                   IN gen' = Lines(g, SubSeq(ls, 1, Len(ls) - 1))
       \/ /\ ~gen.aborted
          /\ gen.connections < MaxConnections
          /\ gen' = Connect([gen EXCEPT !.log = Append(@, "done")])
       \/ /\ ~gen.aborted
          /\ gen' = Caught([gen EXCEPT !.log = Append(@, "network_error")],
                           "network_error")
    /\ UNCHANGED genFrame

\* the cancellation signal passed to getEventStream is aborted
GenAbort ==
    /\ gen.pc \notin {"done", "threw"}
    /\ ~gen.aborted
    /\ gen' = [gen EXCEPT !.aborted = TRUE]
    /\ UNCHANGED genFrame

GenNext == GenNextEvent \/ GenFetchReturn \/ GenReadReturn \/ GenAbort

GenSpec == GenInit /\ [][GenNext]_vars

\* ------------------------------------------------------------ buildForfeitTx

\* nSequence values, as the 32-bit hex literals of the source
SequenceFinal == "0xffffffff"
SequenceLocktime == "0xfffffffe"

Outpoints == { [txid |-> "a", vout |-> 0], [txid |-> "a", vout |-> 1],
               [txid |-> "b", vout |-> 0] }
ConnectorOutpoint == [txid |-> "c", vout |-> 0]
Amounts == 0..MaxAmount
\* txLocktime?: number -- << >> when the caller leaves it out
Locktimes == { << >> } \cup { << n >> : n \in 0..MaxLocktime }

\* the well-known Pay-to-Anchor output: OP_1 0x02 0x4e73, 0 sats
P2A == [script |-> "51024e73", amount |-> 0]

\* `txLocktime ? ... : ...`
Truthy(t) == t # << >> /\ t[1] # 0

buildForfeitTxFinalSequence(p) ==
    [ version |-> 3,
      lockTime |-> p.txLocktime,
      inputs |-> << [ txid |-> p.connectorInput.txid,
                      index |-> p.connectorInput.vout,
                      witnessUtxo |-> [script |-> p.connectorPkScript,
                                       amount |-> p.connectorAmount],
                      sequence |-> SequenceFinal,
                      sighashType |-> "none",
                      tapLeafScript |-> "none",
                      signed |-> FALSE ],
                    [ txid |-> p.vtxoInput.txid,
                      index |-> p.vtxoInput.vout,
                      witnessUtxo |-> [script |-> p.vtxoPkScript,
                                       amount |-> p.vtxoAmount],
                      sequence |-> SequenceFinal,
                      sighashType |-> "DEFAULT",
                      tapLeafScript |-> "none",
                      signed |-> FALSE ] >>,
      outputs |-> << [script |-> p.serverPkScript,
                      amount |-> p.vtxoAmount + p.connectorAmount],
                     P2A >> ]
buildForfeitTxAnnotatesConnector(p) ==
    [ version |-> 3,
      lockTime |-> p.txLocktime,
      inputs |-> << [ txid |-> p.connectorInput.txid,
                      index |-> p.connectorInput.vout,
                      witnessUtxo |-> [script |-> p.connectorPkScript,
                                       amount |-> p.connectorAmount],
                      sequence |-> SequenceFinal,
                      sighashType |-> "DEFAULT",
                      tapLeafScript |-> "none",
                      signed |-> FALSE ],
                    [ txid |-> p.vtxoInput.txid,
                      index |-> p.vtxoInput.vout,
                      witnessUtxo |-> [script |-> p.vtxoPkScript,
                                       amount |-> p.vtxoAmount],
                      sequence |-> IF Truthy(p.txLocktime)
                                   THEN SequenceLocktime ELSE SequenceFinal,
                      sighashType |-> "DEFAULT",
                      tapLeafScript |-> "none",
                      signed |-> FALSE ] >>,
      outputs |-> << [script |-> p.serverPkScript,
                      amount |-> p.vtxoAmount + p.connectorAmount],
                     P2A >> ]
buildForfeitTx(p) ==
    [ version |-> 3,
      lockTime |-> p.txLocktime,
      inputs |-> << [ txid |-> p.connectorInput.txid,
                      index |-> p.connectorInput.vout,
                      witnessUtxo |-> [script |-> p.connectorPkScript,
                                       amount |-> p.connectorAmount],
                      sequence |-> SequenceFinal,
                      sighashType |-> "none",
                      tapLeafScript |-> "none",
                      signed |-> FALSE ],
                    [ txid |-> p.vtxoInput.txid,
                      index |-> p.vtxoInput.vout,
                      witnessUtxo |-> [script |-> p.vtxoPkScript,
                                       amount |-> p.vtxoAmount],
                      sequence |-> IF Truthy(p.txLocktime)
                                   THEN SequenceLocktime ELSE SequenceFinal,
                      sighashType |-> "DEFAULT",
                      tapLeafScript |-> "none",
                      signed |-> FALSE ] >>,
      outputs |-> << [script |-> p.serverPkScript,
                      amount |-> p.vtxoAmount + p.connectorAmount],
                     P2A >> ]

\* forfeitTx.updateInput(1, { tapLeafScript }); forfeitTx.signIdx(key, 1, ...)
signForfeit(tx) ==
    [tx EXCEPT !.inputs[2].tapLeafScript = "forfeit", !.inputs[2].signed = TRUE]

\* the argument of buildForfeitTx as handleSettlementFinalizationEvent
\* passes it, feeAmount included
ForfeitTxParams ==
    [ connectorInput : {ConnectorOutpoint},
      vtxoInput : Outpoints,
      vtxoAmount : Amounts,
      connectorAmount : Amounts,
      feeAmount : Amounts,
      vtxoPkScript : {"vtxoPkScript"},
      connectorPkScript : {"connectorPkScript"},
      serverPkScript : {"serverPkScript"},
      txLocktime : Locktimes ]

ForfeitInit ==
    /\ SettleIdle
    /\ gen = Off /\ fin = Off /\ reg = Off /\ LaterOff
    /\ fft \in [pc : {"params"}, p : ForfeitTxParams, tx : {<< >>}]

forfeitFrame == << settleVars, gen, fin, reg, later >>

BuildForfeit ==
    /\ fft.pc = "params"
    /\ fft' = [fft EXCEPT !.pc = "built", !.tx = << buildForfeitTx(fft.p) >>]
    /\ UNCHANGED forfeitFrame

SignForfeit ==
    /\ fft.pc = "built"
    /\ fft' = [fft EXCEPT !.pc = "signed", !.tx = << signForfeit(fft.tx[1]) >>]
    /\ UNCHANGED forfeitFrame

ForfeitNext == BuildForfeit \/ SignForfeit

ForfeitSpec == ForfeitInit /\ [][ForfeitNext]_vars

\* ----------------------------------------- handleSettlementFinalizationEvent

SeqsUpTo(S, lo, hi) == UNION { [1..n -> S] : n \in lo..hi }

\* SettleParams["inputs"]: a note is a string, anything else carries an outpoint
NoteInput == [note |-> TRUE, txid |-> "arknote", vout |-> 0]
FinInputs == { NoteInput } \cup
             { [note |-> FALSE, txid |-> o.txid, vout |-> o.vout] : o \in Outpoints }
\* the inputs of the settlement PSBT; one without txid is incomplete
IncompleteInput == [txid |-> "", index |-> 0]
PsbtInputs == { IncompleteInput } \cup
              { [txid |-> o.txid, index |-> o.vout] : o \in Outpoints }

\* typeof input === "string"
TreatsNoteAsInput(input) == FALSE
IsNote(input) == input.note

\* vtxos.find(vtxo => vtxo.txid === input.outpoint.txid &&
\*                    vtxo.vout === input.outpoint.vout)
Found(vtxos, input) ==
    \E v \in vtxos : v.txid = input.txid /\ v.vout = input.vout

\* the loop over the inputs of the settlement PSBT for one boarding input,
\* from index j on: every matching input is signed; an incomplete input or a
\* refused signature throws
RECURSIVE SignSettlement(_, _, _, _, _)
SignSettlement(psbt, input, j, signed, signOk) ==
    IF j > Len(psbt) THEN [error |-> "none", signed |-> signed]
    ELSE IF psbt[j].txid = ""
    THEN [error |-> "The server returned incomplete data", signed |-> signed]
    ELSE IF psbt[j].txid # input.txid \/ psbt[j].index # input.vout
    THEN SignSettlement(psbt, input, j + 1, signed, signOk)
    ELSE IF ~signOk
    THEN [error |-> "Unable to sign the settlement transaction", signed |-> signed]
    ELSE SignSettlement(psbt, input, j + 1, signed \cup {j}, signOk)

\* if (!connectorsTreeValid) { validateConnectorsTree(...) }: whether the
\* iteration of a vtxo input calls validateConnectorsTree
ValidatesEveryInput(connectorsTreeValid) == TRUE
ValidatesConnectorsTree(connectorsTreeValid) == ~connectorsTreeValid

FinStart(inputs, psbt) ==
    [ pc |-> "getVirtualCoins", inputs |-> inputs, psbt |-> psbt,
      vtxos |-> {}, connectorsIndex |-> {}, i |-> 1,
      signedForfeits |-> << >>, hasBoardingUtxos |-> FALSE,
      connectorsTreeValid |-> FALSE, validations |-> 0, signed |-> {},
      error |-> "none", submitted |-> << >> ]

FinInit ==
    /\ SettleIdle
    /\ gen = Off /\ fft = Off /\ reg = Off /\ LaterOff
    /\ \E inputs \in SeqsUpTo(FinInputs, 1, MaxInputs),
          psbt \in SeqsUpTo(PsbtInputs, 0, MaxPsbtInputs) :
            fin = FinStart(inputs, psbt)

finFrame == << settleVars, gen, fft, reg, later >>

\* getTapLeafScript(input, network): the leaf, or the error it throws
TapLeafScripts == {"ok", "invalid vtxo tapscripts",
                   "forfeit tapscript not found in vtxo tapscripts"}

\* throw new Error(msg) inside the loop: the handler is left at once
FinSwallow(msg) == [fin EXCEPT !.i = @ + 1, !.error = msg]
FinThrow(msg) == [fin EXCEPT !.pc = "threw", !.error = msg]

\* const vtxos = await this.getVirtualCoins(); connectorsIndex is the part of
\* event.connectorsIndex keyed by those coins
FinGetVirtualCoinsReturn ==
    /\ fin.pc = "getVirtualCoins"
    /\ \E vtxos \in SUBSET Outpoints : \E index \in SUBSET vtxos :
          fin' = [fin EXCEPT !.pc = "loop", !.vtxos = vtxos,
                             !.connectorsIndex = index]
    /\ UNCHANGED finFrame

\* one iteration of `for (const input of inputs)`
FinInput ==
    /\ fin.pc = "loop"
    /\ fin.i <= Len(fin.inputs)
    /\ LET input == fin.inputs[fin.i]
           next == [fin EXCEPT !.i = @ + 1]
           validate == ValidatesConnectorsTree(fin.connectorsTreeValid)
           valid == fin.connectorsTreeValid \/ validate
           count == fin.validations + (IF validate THEN 1 ELSE 0)
       IN \E signOk \in BOOLEAN, treeOk \in BOOLEAN,
             leaf \in {"ok", "Invalid connector tx", "Connector output not found"},
             tap \in TapLeafScripts :
          fin' =
            IF IsNote(input) THEN next
            ELSE IF tap # "ok" THEN FinThrow(tap)
            ELSE IF ~Found(fin.vtxos, input)
            THEN LET r == SignSettlement(fin.psbt, input, 1, fin.signed, signOk)
                 IN IF r.error # "none"
                    THEN [FinThrow(r.error) EXCEPT !.hasBoardingUtxos = TRUE,
                                                   !.signed = r.signed]
                    ELSE [next EXCEPT !.hasBoardingUtxos = TRUE,
                                      !.signed = r.signed]
            ELSE IF validate /\ ~treeOk
            THEN [FinThrow("invalid connectors tree") EXCEPT !.validations = count]
            ELSE IF ~Found(fin.connectorsIndex, input)
            THEN [FinThrow("Connector outpoint not found")
                     EXCEPT !.connectorsTreeValid = valid, !.validations = count]
            ELSE IF leaf # "ok"
            THEN [FinThrow(leaf) EXCEPT !.connectorsTreeValid = valid,
                                        !.validations = count]
            ELSE [next EXCEPT
                    !.connectorsTreeValid = valid,
                    !.validations = count,
                    !.signedForfeits = Append(@, signForfeit(buildForfeitTx(
                        [ connectorInput |-> ConnectorOutpoint,
                          connectorAmount |-> 1,
                          feeAmount |-> 1,
                          serverPkScript |-> "serverScript",
                          connectorPkScript |-> "connectorScript",
                          vtxoAmount |-> 1,
                          vtxoInput |-> [txid |-> input.txid, vout |-> input.vout],
                          vtxoPkScript |-> "vtxoScript",
                          txLocktime |-> << >> ])))]
    /\ UNCHANGED finFrame

\* await this.arkProvider.submitSignedForfeitTxs(signedForfeits,
\*     hasBoardingUtxos ? settlementPsbt : undefined)
FinSubmit ==
    /\ fin.pc = "loop"
    /\ fin.i > Len(fin.inputs)
    /\ fin' = [fin EXCEPT
                 !.pc = "submitted",
                 !.submitted = << [ signedForfeitTxs |-> fin.signedForfeits,
                                    signedRoundTx |->
                                        IF fin.hasBoardingUtxos
                                        THEN << [inputs |-> fin.psbt,
                                                 signed |-> fin.signed] >>
                                        ELSE << >> ] >>]
    /\ UNCHANGED finFrame

FinNext == FinGetVirtualCoinsReturn \/ FinInput \/ FinSubmit

FinSpec == FinInit /\ [][FinNext]_vars

\* ------------------------------------------------ registerInputsForNextRound

Notes == {"arknote1", "arknote2"}
\* the inputs of settle: a note is a string, a structured input has an
\* outpoint and tapscripts
RegInputs ==
    { [note |-> TRUE, text |-> n, txid |-> "", vout |-> 0, tapscripts |-> ""] :
        n \in Notes } \cup
    { [note |-> FALSE, text |-> "", txid |-> o.txid, vout |-> o.vout,
       tapscripts |-> "ts"] : o \in Outpoints }
Providers == {"ArkProvider", "RestArkProvider"}

ProtoInput(input) ==
    [ outpoint |-> [txid |-> input.txid, vout |-> input.vout],
      scripts |-> input.tapscripts ]

\* vtxoInputs.push({ outpoint, scripts }) for each structured input
ProtoInputs(seq) == [i \in 1..Len(seq) |-> ProtoInput(seq[i])]
\* noteInputs.push(input) for each string
Texts(seq) == [i \in 1..Len(seq) |-> seq[i].text]

\* ArkProvider (part_002): strings go to notes, the rest to inputs
ArkProviderRequest(inputs) ==
    [ error |-> "none",
      keys |-> {"inputs", "notes", "ephemeralPubkey"},
      inputs |-> ProtoInputs(SelectSeq(inputs, LAMBDA x : ~IsNote(x))),
      notes |-> Texts(SelectSeq(inputs, IsNote)) ]

\* RestArkProvider (part_003): every input is read as a structured input;
\* `input.outpoint.txid` of a string throws a TypeError
RestArkProviderRequest(inputs) ==
    IF \E i \in 1..Len(inputs) : IsNote(inputs[i])
    THEN [error |-> "TypeError", keys |-> {}, inputs |-> << >>, notes |-> << >>]
    ELSE [ error |-> "none",
           keys |-> {"inputs"},
           inputs |-> ProtoInputs(inputs),
           notes |-> << >> ]

RegInit ==
    /\ SettleIdle
    /\ gen = Off /\ fin = Off /\ fft = Off /\ LaterOff
    /\ \E provider \in Providers, inputs \in SeqsUpTo(RegInputs, 0, MaxInputs) :
          reg = [ pc |-> "called", provider |-> provider, inputs |-> inputs,
                  request |-> << >>, error |-> "none", requestId |-> "none" ]

regFrame == << settleVars, gen, fin, fft, later >>

\* the loop over the inputs, then fetch(url, { method: "POST", body })
RegPost ==
    /\ reg.pc = "called"
    /\ LET r == IF reg.provider = "ArkProvider"
                THEN ArkProviderRequest(reg.inputs)
                ELSE RestArkProviderRequest(reg.inputs)
       IN reg' = IF r.error # "none"
                 THEN [reg EXCEPT !.pc = "threw", !.error = r.error]
                 ELSE [reg EXCEPT !.pc = "fetch", !.request = << r >>]
    /\ UNCHANGED regFrame

\* the response: not ok throws, otherwise { requestId: data.requestId }
RegResponse ==
    /\ reg.pc = "fetch"
    /\ \E ok \in BOOLEAN, id \in RequestIds :
          reg' = IF ok
                 THEN [reg EXCEPT !.pc = "returned", !.requestId = id]
                 ELSE [reg EXCEPT !.pc = "threw",
                                  !.error = "Failed to register inputs"]
    /\ UNCHANGED regFrame

RegNext == RegPost \/ RegResponse

RegSpec == RegInit /\ [][RegNext]_vars

\* ------------------------------------------------- two settle calls at once

SettleIds == {1, 2}
\* the variables a call of settle declares in its body
Locals == {"pc", "vtxoTreeSigningKey", "step", "signingSession", "pingRunning",
           "interval", "pings"}

\* where call i keeps local f: const / let bindings of the call's own frame;
\* frame 0 would be a field of the wallet object
SlotSharesStep(i, f) == IF f = "step" THEN << 0, f >> ELSE << i, f >>
Slot(i, f) == << i, f >>

Get(m, i, f) == m[Slot(i, f)]
RECURSIVE Put(_, _, _)
Put(m, i, kvs) ==
    IF kvs = << >> THEN m
    ELSE Put([m EXCEPT ![Slot(i, Head(kvs)[1])] = Head(kvs)[2]], i, Tail(kvs))

LocalInit(f) ==
    CASE f = "pc" -> "idle"
      [] f = "vtxoTreeSigningKey" -> << >>
      [] f = "step" -> "undefined"
      [] f = "signingSession" -> "undefined"
      [] f = "pingRunning" -> FALSE
      [] f = "interval" -> FALSE
      [] f = "pings" -> 0

TwoInit ==
    /\ SettleIdle
    /\ fin = Off /\ fft = Off /\ gen = Off /\ reg = Off
    /\ mat = Off /\ prs = Off /\ snd = Off /\ bal = Off /\ LastOff
    /\ two = [ pc |-> "on", actor |-> 0,
               mem |-> [sl \in (SettleIds \cup {0}) \X Locals |-> LocalInit(sl[2])] ]

twoFrame == << settleVars, fin, fft, gen, reg, mat, prs, snd, bal, last >>

\* call i takes a step that leaves memory m
Step(i, m) == two' = [two EXCEPT !.actor = i, !.mem = m]

\* stopPing() of call i
TwoStopPing(m, i) ==
    LET tm == stopPing([pingRunning |-> Get(m, i, "pingRunning"),
                        interval |-> Get(m, i, "interval")])
    IN Put(m, i, << << "pingRunning", tm.pingRunning >>,
                    << "interval", tm.interval >> >>)

\* settle(params): the key is generated, registerInputsForNextRound awaited
TwoSettle(i) ==
    /\ Get(two.mem, i, "pc") = "idle"
    /\ Step(i, Put(two.mem, i, << << "pc", "registerInputsForNextRound" >>,
                                  << "vtxoTreeSigningKey", << "key", i >> >> >>))
    /\ UNCHANGED twoFrame

\* the provider call that call i awaits settles
TwoReturn(i) ==
    LET m == two.mem
        at == Get(m, i, "pc")
    IN /\ at \in {"registerInputsForNextRound", "registerOutputsForNextRound",
                  "getInfo", "submitTreeNonces", "submitTreeSignatures",
                  "getVirtualCoins", "submitSignedForfeitTxs"}
       /\ \E ok \in BOOLEAN, valid \in BOOLEAN :
            Step(i,
              IF ~ok \/ (at = "getVirtualCoins" /\ ~valid)
              THEN Put(m, i, << << "pc", OnRejected(at) >> >>)
              ELSE CASE at = "registerInputsForNextRound" ->
                          Put(m, i, << << "pc", "registerOutputsForNextRound" >> >>)
                     [] at = "registerOutputsForNextRound" ->
                          Put(m, i, << << "interval", TRUE >>,
                                       << "pingRunning", TRUE >>,
                                       << "pc", "getInfo" >> >>)
                     [] at = "getInfo" ->
                          Put(m, i, << << "pc", "next" >> >>)
                     [] at = "submitTreeNonces" ->
                          Put(m, i, << << "signingSession", "present" >>,
                                       << "step", SigningStart >>,
                                       << "pc", "next" >> >>)
                     [] at = "submitTreeSignatures" ->
                          Put(m, i, << << "step", SigningNoncesGenerated >>,
                                       << "pc", "next" >> >>)
                     [] at = "getVirtualCoins" ->
                          Put(m, i, << << "pc", "submitSignedForfeitTxs" >> >>)
                     [] at = "submitSignedForfeitTxs" ->
                          Put(m, i, << << "step", Finalization >>,
                                       << "pc", "next" >> >>))
       /\ UNCHANGED twoFrame

\* the stream of call i yields an event of type t
TwoEvent(i) ==
    /\ Get(two.mem, i, "pc") = "next"
    /\ \E t \in SettlementEventType, valid \in BOOLEAN :
        LET m == two.mem
            st == Get(m, i, "step")
            m1 == IF CallsStopPing(t) THEN TwoStopPing(m, i) ELSE m
        IN Step(i,
             IF ~Accepts(t, st) THEN m
             ELSE CASE t = Failed -> Put(m1, i, << << "pc", "failed" >> >>)
                    [] t = SigningStart ->
                         Put(m1, i, << << "pc", IF valid THEN "submitTreeNonces"
                                                ELSE "failed" >> >>)
                    [] t = SigningNoncesGenerated ->
                         Put(m1, i, << << "pc",
                               IF Get(m, i, "signingSession") = "undefined"
                               THEN "failed" ELSE "submitTreeSignatures" >> >>)
                    [] t = Finalization ->
                         Put(m1, i, << << "pc", "getVirtualCoins" >> >>)
                    [] t = Finalized -> Put(m1, i, << << "pc", "done" >> >>)
                    [] OTHER -> Put(m1, i, << << "step", t >> >>))
    /\ UNCHANGED twoFrame

\* the stream of call i ends or throws
TwoStreamEnd(i) ==
    /\ Get(two.mem, i, "pc") = "next"
    /\ Step(i, Put(two.mem, i, << << "pc", "failed" >> >>))
    /\ UNCHANGED twoFrame

\* the interval of call i fires
TwoTick(i) ==
    /\ Get(two.mem, i, "interval")
    /\ Get(two.mem, i, "pings") < MaxPings
    /\ Step(i, Put(two.mem, i, << << "pings", Get(two.mem, i, "pings") + 1 >> >>))
    /\ UNCHANGED twoFrame

\* a ping of call i settles; rejected, it runs stopPing
TwoPingReturn(i) ==
    /\ Get(two.mem, i, "pings") > 0
    /\ \E ok \in BOOLEAN :
        LET m == Put(two.mem, i, << << "pings", Get(two.mem, i, "pings") - 1 >> >>)
        IN Step(i, IF ok THEN m ELSE TwoStopPing(m, i))
    /\ UNCHANGED twoFrame

TwoNext ==
    \E i \in SettleIds :
        \/ TwoSettle(i)
        \/ TwoReturn(i)
        \/ TwoEvent(i)
        \/ TwoStreamEnd(i)
        \/ TwoTick(i)
        \/ TwoPingReturn(i)

TwoSpec == TwoInit /\ [][TwoNext]_vars

\* ------------------------------------------------ encodeMatrix, decodeMatrix

\* decodeNoncesMatrix decodes with cells of 66 bytes
NonceLength == 66
CellLengths == {1, NonceLength}
\* the cells of a matrix of cell length len: empty, or len bytes
Cells(len) == { << >> } \cup { [k \in 1..len |-> b] : b \in {0, 1} }
Matrices(len) == SeqsUpTo(SeqsUpTo(Cells(len), 0, MaxCols), 0, MaxRows)

\* view.setUint32(offset, n, true) / view.getUint32(offset, true)
U32BE(n) == << (n \div 16777216) % 256, (n \div 65536) % 256,
               (n \div 256) % 256, n % 256 >>
U32LE(n) == << n % 256, (n \div 256) % 256, (n \div 65536) % 256,
               (n \div 16777216) % 256 >>
GetU32LE(bytes, off) ==
    bytes[off + 1] + 256 * bytes[off + 2] + 65536 * bytes[off + 3]
        + 16777216 * bytes[off + 4]

RECURSIVE EncodeCells(_)
EncodeCells(row) ==
    IF row = << >> THEN << >>
    ELSE (IF Len(Head(row)) > 0 THEN << 1 >> \o Head(row) ELSE << 0 >>)
            \o EncodeCells(Tail(row))
RECURSIVE EncodeRows(_)
EncodeRows(matrix) ==
    IF matrix = << >> THEN << >>
    ELSE U32LE(Len(Head(matrix))) \o EncodeCells(Head(matrix))
            \o EncodeRows(Tail(matrix))
encodeMatrix(matrix) == U32LE(Len(matrix)) \o EncodeRows(matrix)

\* the inner loop of decodeMatrix: n cells from offset off; a read past the
\* end of the buffer throws a RangeError
RECURSIVE DecodeCells(_, _, _, _, _)
DecodeCells(bytes, off, n, len, row) ==
    IF n = 0 THEN [error |-> "none", off |-> off, row |-> row]
    ELSE IF off + 1 > Len(bytes)
    THEN [error |-> "RangeError", off |-> off, row |-> row]
    ELSE IF bytes[off + 1] = 1
    THEN IF off + 1 + len > Len(bytes)
         THEN [error |-> "RangeError", off |-> off, row |-> row]
         ELSE DecodeCells(bytes, off + 1 + len, n - 1, len,
                          Append(row, SubSeq(bytes, off + 2, off + 1 + len)))
    ELSE DecodeCells(bytes, off + 1, n - 1, len, Append(row, << >>))
RECURSIVE DecodeRows(_, _, _, _, _)
DecodeRows(bytes, off, n, len, rows) ==
    IF n = 0 THEN [error |-> "none", matrix |-> rows]
    ELSE IF off + 4 > Len(bytes)
    THEN [error |-> "RangeError", matrix |-> rows]
    ELSE LET r == DecodeCells(bytes, off + 4, GetU32LE(bytes, off), len, << >>)
         IN IF r.error # "none"
            THEN [error |-> r.error, matrix |-> rows]
            ELSE DecodeRows(bytes, r.off, n - 1, len, Append(rows, r.row))
decodeMatrix(bytes, len) ==
    IF Len(bytes) < 4 THEN [error |-> "RangeError", matrix |-> << >>]
    ELSE DecodeRows(bytes, 4, GetU32LE(bytes, 0), len, << >>)

MatInit ==
    /\ SettleIdle
    /\ fin = Off /\ fft = Off /\ gen = Off /\ reg = Off
    /\ two = Off /\ prs = Off /\ snd = Off /\ bal = Off /\ LastOff
    /\ \E len \in CellLengths : \E m \in Matrices(len) :
          mat = [ pc |-> "matrix", cellLength |-> len, matrix |-> m,
                  bytes |-> << >>, decoded |-> << >> ]

matFrame == << settleVars, fin, fft, gen, reg, two, prs, snd, bal, last >>

MatEncode ==
    /\ mat.pc = "matrix"
    /\ mat' = [mat EXCEPT !.pc = "encoded", !.bytes = encodeMatrix(mat.matrix)]
    /\ UNCHANGED matFrame

MatDecode ==
    /\ mat.pc = "encoded"
    /\ mat' = [mat EXCEPT !.pc = "decoded",
                          !.decoded = << decodeMatrix(mat.bytes, mat.cellLength) >>]
    /\ UNCHANGED matFrame

MatNext == MatEncode \/ MatDecode

MatSpec == MatInit /\ [][MatNext]_vars

\* --------------------------------- ArkProvider.parseSettlementEvent (fee rate)

\* ProtoTypes: minRelayFeeRate is a string, the decimal digits of sats/kvB
RECURSIVE Decimal(_)
Decimal(n) == IF n < 10 THEN << n >> ELSE Append(Decimal(n \div 10), n % 10)
\* BigInt(text)
RECURSIVE BigIntOf(_)
BigIntOf(text) ==
    IF text = << >> THEN 0
    ELSE 10 * BigIntOf(SubSeq(text, 1, Len(text) - 1)) + text[Len(text)]

\* BigInt(data.roundFinalization.minRelayFeeRate) / BigInt(1000)
ToSatPerVbyteRounded(text) == (BigIntOf(text) + 500) \div 1000
ToSatPerVbyte(text) == BigIntOf(text) \div 1000

PrsInit ==
    /\ SettleIdle
    /\ fin = Off /\ fft = Off /\ gen = Off /\ reg = Off
    /\ two = Off /\ mat = Off /\ snd = Off /\ bal = Off /\ LastOff
    /\ \E v \in 0..MaxFeeRate :
          prs = [ pc |-> "record", server |-> v,
                  minRelayFeeRate |-> Decimal(v), parsed |-> 0 ]

prsFrame == << settleVars, fin, fft, gen, reg, two, mat, snd, bal, last >>

\* parseSettlementEvent on a roundFinalization record
ParseFinalization ==
    /\ prs.pc = "record"
    /\ prs' = [prs EXCEPT !.pc = "parsed",
                          !.parsed = ToSatPerVbyte(prs.minRelayFeeRate)]
    /\ UNCHANGED prsFrame

PrsNext == ParseFinalization

PrsSpec == PrsInit /\ [][PrsNext]_vars

\* ------------------------------------------------------- Wallet.sendBitcoin

\* static DUST_AMOUNT = BigInt(546)
DUST_AMOUNT == 546
SendAmounts == {0 - 1, 0, 1, DUST_AMOUNT - 1, DUST_AMOUNT, DUST_AMOUNT + 1, 50000}
AddressKinds == {"onchain", "ark"}

\* private isOffchainSuitable(params)
isOffchainSuitable(p) == p.amount > DUST_AMOUNT

\* the checks of sendBitcoin before it picks a path
NoAmountCheck(p) == "none"
AmountError(p) ==
    IF p.amount <= 0 THEN "Amount must be positive"
    ELSE IF p.amount < DUST_AMOUNT THEN "Amount is below dust limit"
    ELSE "none"

SndInit ==
    /\ SettleIdle
    /\ fin = Off /\ fft = Off /\ gen = Off /\ reg = Off
    /\ two = Off /\ mat = Off /\ prs = Off /\ bal = Off /\ LastOff
    /\ \E amount \in SendAmounts, address \in AddressKinds,
          arkProvider \in BOOLEAN, zeroFee \in BOOLEAN :
          snd = [ pc |-> "called",
                  p |-> [amount |-> amount, address |-> address],
                  arkProvider |-> arkProvider, zeroFee |-> zeroFee,
                  calls |-> << >>, error |-> "none", txid |-> "none" ]

sndFrame == << settleVars, fin, fft, gen, reg, two, mat, prs, bal, last >>

\* sendBitcoin(params, zeroFee) up to its first await: the amount checks, then
\* sendOffchain (getVirtualCoins) or sendOnchain (getCoins)
SendBitcoin ==
    /\ snd.pc = "called"
    /\ snd' =
        IF AmountError(snd.p) # "none"
        THEN [snd EXCEPT !.pc = "threw", !.error = AmountError(snd.p)]
        ELSE IF snd.arkProvider /\ isOffchainSuitable(snd.p)
        THEN [snd EXCEPT !.pc = "getVirtualCoins",
                         !.calls = Append(@, "arkProvider.getVirtualCoins")]
        ELSE [snd EXCEPT !.pc = "getCoins",
                         !.calls = Append(@, "onchainProvider.getCoins")]
    /\ UNCHANGED sndFrame

\* the coins arrive: coin selection, the transaction with its payment output
\* (the address is decoded as the path's kind of address), the signature, and
\* the broadcast or the submission
SndCoinsReturn ==
    /\ snd.pc \in {"getCoins", "getVirtualCoins"}
    /\ \E ok \in BOOLEAN, selected \in BOOLEAN :
        snd' =
          IF ~ok THEN [snd EXCEPT !.pc = "threw", !.error = "provider"]
          ELSE IF ~selected
          THEN [snd EXCEPT !.pc = "threw", !.error = "Insufficient funds"]
          ELSE IF snd.pc = "getCoins"
          THEN IF snd.p.address # "onchain"
               THEN [snd EXCEPT !.pc = "threw", !.error = "invalid address"]
               ELSE [snd EXCEPT !.pc = "broadcastTransaction",
                        !.calls = Append(@, "onchainProvider.broadcastTransaction")]
          ELSE IF snd.p.address # "ark"
               THEN [snd EXCEPT !.pc = "threw", !.error = "invalid address"]
               ELSE [snd EXCEPT !.pc = "submitVirtualTx",
                        !.calls = Append(@, "arkProvider.submitVirtualTx")]
    /\ UNCHANGED sndFrame

\* broadcastTransaction or submitVirtualTx settles
SndSubmitReturn ==
    /\ snd.pc \in {"broadcastTransaction", "submitVirtualTx"}
    /\ \E ok \in BOOLEAN, txid \in Txids :
        snd' = IF ok
               THEN [snd EXCEPT !.pc = "returned", !.txid = txid]
               ELSE [snd EXCEPT !.pc = "threw", !.error = "provider"]
    /\ UNCHANGED sndFrame

SndNext == SendBitcoin \/ SndCoinsReturn \/ SndSubmitReturn

SndSpec == SndInit /\ [][SndNext]_vars

\* -------------------------------------------------------- Wallet.getBalance

CoinValues == {1, 2}

\* a coin as the on-chain provider reports it
Coins == [value : CoinValues, confirmed : BOOLEAN]

\* a vtxo as the Ark server reports it (spendableVtxos and spentVtxos alike)
ServerVtxos == [amount : CoinValues, spent : BOOLEAN, swept : BOOLEAN,
                isPending : BOOLEAN]

CoinLists == UNION { [1 .. n -> Coins] : n \in 0 .. MaxCoins }
ServerVtxoLists == UNION { [1 .. n -> ServerVtxos] : n \in 0 .. MaxCoins }

\* the virtualStatus.state ArkProvider.getVirtualCoins gives a server vtxo
VirtualState(vtxo) ==
    IF vtxo.spent THEN "spent"
    ELSE IF vtxo.swept THEN "swept"
    ELSE IF vtxo.isPending THEN "pending"
    ELSE "settled"

\* ArkProvider.getVirtualCoins: the server's vtxos in the wallet's format
VirtualCoinOf(vtxo) ==
    [value |-> vtxo.amount, virtualStatus |-> [state |-> VirtualState(vtxo)]]

VirtualCoins(vtxos) == [k \in 1 .. Len(vtxos) |-> VirtualCoinOf(vtxos[k])]

\* .reduce((sum, coin) => sum + coin.value, 0)
RECURSIVE SumValues(_)
SumValues(coins) ==
    IF coins = << >> THEN 0
    ELSE Head(coins).value + SumValues(Tail(coins))

IsSettled(coin) == coin.virtualStatus.state = "settled"
IsPendingCoin(coin) == coin.virtualStatus.state = "pending"
IsSwept(coin) == coin.virtualStatus.state = "swept"

\* const offchainTotal = offchainSettled + offchainPending
OffchainTotalWithSwept(settled, pendingSum, swept) == settled + pendingSum + swept
OffchainTotal(settled, pendingSum, swept) == settled + pendingSum

\* the balance getBalance returns for the coins and the virtual coins it read
WalletBalance(coins, vtxos) ==
    LET onchainConfirmed == SumValues(SelectSeq(coins, LAMBDA c : c.confirmed))
        onchainUnconfirmed == SumValues(SelectSeq(coins, LAMBDA c : ~c.confirmed))
        onchainTotal == onchainConfirmed + onchainUnconfirmed
        offchainSettled == SumValues(SelectSeq(vtxos, IsSettled))
        offchainPending == SumValues(SelectSeq(vtxos, IsPendingCoin))
        offchainSwept == SumValues(SelectSeq(vtxos, IsSwept))
        offchainTotal ==
            OffchainTotal(offchainSettled, offchainPending, offchainSwept)
    IN  [ onchain |-> [ confirmed |-> onchainConfirmed,
                        unconfirmed |-> onchainUnconfirmed,
                        total |-> onchainTotal ],
          offchain |-> [ swept |-> offchainSwept,
                         settled |-> offchainSettled,
                         pending |-> offchainPending,
                         total |-> offchainTotal ],
          total |-> onchainTotal + offchainTotal ]

NoBalance == [pc |-> "none"]

BalInit ==
    /\ SettleIdle
    /\ fin = Off /\ fft = Off /\ gen = Off /\ reg = Off
    /\ two = Off /\ mat = Off /\ prs = Off /\ snd = Off /\ LastOff
    /\ \E arkProvider \in BOOLEAN :
          bal = [ pc |-> "called", arkProvider |-> arkProvider,
                  coins |-> << >>, served |-> << >>, calls |-> << >>,
                  balance |-> NoBalance, error |-> "none" ]

balFrame == << settleVars, fin, fft, gen, reg, two, mat, prs, snd, last >>

\* getBalance() up to its first await: getCoins
GetBalance ==
    /\ bal.pc = "called"
    /\ bal' = [bal EXCEPT !.pc = "getCoins",
                          !.calls = Append(@, "onchainProvider.getCoins")]
    /\ UNCHANGED balFrame

\* the coins arrive: the on-chain sums, then getVirtualCoins when an Ark
\* provider is configured, the balance otherwise
BalCoinsReturn ==
    /\ bal.pc = "getCoins"
    /\ \E ok \in BOOLEAN, coins \in CoinLists :
        bal' =
          IF ~ok THEN [bal EXCEPT !.pc = "threw", !.error = "provider"]
          ELSE IF bal.arkProvider
          THEN [bal EXCEPT !.pc = "getVirtualCoins", !.coins = coins,
                           !.calls = Append(@, "arkProvider.getVirtualCoins")]
          ELSE [bal EXCEPT !.pc = "returned", !.coins = coins,
                           !.balance = WalletBalance(coins, << >>)]
    /\ UNCHANGED balFrame

\* the server's vtxos arrive: the off-chain sums and the balance
BalVirtualCoinsReturn ==
    /\ bal.pc = "getVirtualCoins"
    /\ \E ok \in BOOLEAN, vtxos \in ServerVtxoLists :
        bal' =
          IF ~ok THEN [bal EXCEPT !.pc = "threw", !.error = "provider"]
          ELSE [bal EXCEPT !.pc = "returned", !.served = vtxos,
                           !.balance = WalletBalance(bal.coins, VirtualCoins(vtxos))]
    /\ UNCHANGED balFrame

BalNext == GetBalance \/ BalCoinsReturn \/ BalVirtualCoinsReturn

BalSpec == BalInit /\ [][BalNext]_vars

\* ------------------------------------------- Wallet.settle without params

\* the coins at the boarding address, as onchainProvider.getCoins reports them
BoardingCoins == [txid : {"b1", "b2"}, value : CoinValues]
\* the virtual coins of the offchain address, spent ones included, as
\* arkProvider.getVirtualCoins reports them
WalletVtxos == [txid : {"v1", "v2"}, value : CoinValues, state : {"settled", "spent"}]

BoardingLists == UNION { [1 .. n -> BoardingCoins] : n \in 0 .. MaxCoins }
VtxoLists == UNION { [1 .. n -> WalletVtxos] : n \in 0 .. MaxCoins }

\* getBoardingUtxos / getVtxos: each coin with its outpoint and tapscripts
Spendable(coins) ==
    [k \in 1 .. Len(coins) |-> [outpoint |-> coins[k].txid, value |-> coins[k].value]]

\* const inputs = [...boardingUtxos, ...vtxos]
DefaultInputsVtxosFirst(boardingUtxos, vtxos) == vtxos \o boardingUtxos
DefaultInputs(boardingUtxos, vtxos) == boardingUtxos \o vtxos

\* params = { inputs, outputs: [{ address, amount: BigInt(amount) }] }
DefaultParams(boardingUtxos, vtxos) ==
    [ inputs |-> DefaultInputs(boardingUtxos, vtxos),
      outputs |-> << [ address |-> "offchainAddress",
                       amount |-> SumValues(boardingUtxos) + SumValues(vtxos) ] >> ]

NoParams == [inputs |-> << >>, outputs |-> << >>]

DflInit ==
    /\ SettleIdle
    /\ fin = Off /\ fft = Off /\ gen = Off /\ reg = Off
    /\ two = Off /\ mat = Off /\ prs = Off /\ snd = Off /\ bal = Off
    /\ sub = Off /\ sww = Off
    /\ \E offchainAddress \in BOOLEAN :
          dfl = [ pc |-> "called", offchainAddress |-> offchainAddress,
                  boarding |-> << >>, vtxos |-> << >>, params |-> NoParams,
                  calls |-> << >>, interval |-> FALSE, error |-> "none" ]

dflFrame == << settleVars, fin, fft, gen, reg, two, mat, prs, snd, bal, sub, sww >>

\* settle() up to its first await: getBoardingUtxos
DflSettle ==
    /\ dfl.pc = "called"
    /\ dfl' = IF ~dfl.offchainAddress
              THEN [dfl EXCEPT !.pc = "threw",
                               !.error = "Offchain address not configured"]
              ELSE [dfl EXCEPT !.pc = "getBoardingUtxos",
                               !.calls = Append(@, "onchainProvider.getCoins")]
    /\ UNCHANGED dflFrame

\* the boarding utxos arrive: getVtxos
DflBoardingUtxosReturn ==
    /\ dfl.pc = "getBoardingUtxos"
    /\ \E ok \in BOOLEAN, coins \in BoardingLists :
        dfl' = IF ~ok THEN [dfl EXCEPT !.pc = "threw", !.error = "provider"]
               ELSE [dfl EXCEPT !.pc = "getVtxos", !.boarding = coins,
                        !.calls = Append(@, "arkProvider.getVirtualCoins")]
    /\ UNCHANGED dflFrame

\* the vtxos arrive: the inputs, the check that there is one, the params, and
\* registerInputsForNextRound
DflVtxosReturn ==
    /\ dfl.pc = "getVtxos"
    /\ \E ok \in BOOLEAN, vtxos \in VtxoLists :
        dfl' =
          IF ~ok THEN [dfl EXCEPT !.pc = "threw", !.error = "provider"]
          ELSE IF Len(DefaultInputs(Spendable(dfl.boarding), Spendable(vtxos))) = 0
          THEN [dfl EXCEPT !.pc = "threw", !.vtxos = vtxos,
                           !.error = "No inputs found"]
          ELSE [dfl EXCEPT !.pc = "registerInputsForNextRound", !.vtxos = vtxos,
                   !.params = DefaultParams(Spendable(dfl.boarding), Spendable(vtxos)),
                   !.calls = Append(@, "arkProvider.registerInputsForNextRound")]
    /\ UNCHANGED dflFrame

\* registerInputsForNextRound settles: registerOutputsForNextRound
DflRegisterInputsReturn ==
    /\ dfl.pc = "registerInputsForNextRound"
    /\ \E ok \in BOOLEAN :
        dfl' = IF ~ok THEN [dfl EXCEPT !.pc = "threw", !.error = "provider"]
               ELSE [dfl EXCEPT !.pc = "registerOutputsForNextRound",
                        !.calls = Append(@, "arkProvider.registerOutputsForNextRound")]
    /\ UNCHANGED dflFrame

\* registerOutputsForNextRound settles: setInterval starts the ping timer
DflRegisterOutputsReturn ==
    /\ dfl.pc = "registerOutputsForNextRound"
    /\ \E ok \in BOOLEAN :
        dfl' = IF ~ok THEN [dfl EXCEPT !.pc = "threw", !.error = "provider"]
               ELSE [dfl EXCEPT !.pc = "getInfo", !.interval = TRUE]
    /\ UNCHANGED dflFrame

DflNext ==
    \/ DflSettle
    \/ DflBoardingUtxosReturn
    \/ DflVtxosReturn
    \/ DflRegisterInputsReturn
    \/ DflRegisterOutputsReturn

DflSpec == DflInit /\ [][DflNext]_vars

\* ------------------------------------------------------ subscribeToEvents

\* abortController.signal.aborted, read through the variable abortController:
\* controllers are numbered in the order they are constructed
SignalAborted(controller, aborted) == controller \in aborted

SubInit ==
    /\ SettleIdle
    /\ fin = Off /\ fft = Off /\ gen = Off /\ reg = Off
    /\ two = Off /\ mat = Off /\ prs = Off /\ snd = Off /\ bal = Off
    /\ dfl = Off /\ sww = Off
    \* subscribeToEvents(callback) up to its return: the background loop has
    \* passed its first test and awaits fetch with the first controller's signal
    /\ sub = [ pc |-> "fetch", abortController |-> 1, aborted |-> {},
               signal |-> 1, connections |-> 1, callbacks |-> 0,
               unsubscribed |-> 0, errors |-> 0 ]

subFrame == << settleVars, fin, fft, gen, reg, two, mat, prs, snd, bal, dfl, sww >>

\* while (!abortController.signal.aborted) { try { await fetch(url, { signal:
\* abortController.signal }) ... : the test of the outer loop and the next fetch
SubLoop(st) ==
    IF SignalAborted(st.abortController, st.aborted)
    THEN [st EXCEPT !.pc = "stopped"]
    ELSE [st EXCEPT !.pc = "fetch", !.signal = st.abortController,
                    !.connections = @ + 1]

\* catch (error) { if (!abortController.signal.aborted) console.error(...) }
SubCaught(st) ==
    SubLoop(IF SignalAborted(st.abortController, st.aborted)
            THEN st ELSE [st EXCEPT !.errors = 1])

\* the fetch settles: rejected when its signal is aborted or the connection
\* fails, otherwise the reader is taken and the first read awaited
SubFetchReturn ==
    /\ sub.pc = "fetch"
    /\ sub.connections < MaxSubConnections
    /\ \E ok \in BOOLEAN :
        sub' = IF SignalAborted(sub.signal, sub.aborted) \/ ~ok
               THEN SubCaught(sub)
               ELSE IF SignalAborted(sub.abortController, sub.aborted)
               THEN SubLoop(sub)
               ELSE [sub EXCEPT !.pc = "read"]
    /\ UNCHANGED subFrame

\* reader.read() settles: rejected when the signal of the fetch is aborted or
\* the connection fails; done breaks to the outer loop; a chunk with one
\* complete line invokes the callback and the inner loop tests the signal
SubReadReturn ==
    /\ sub.pc = "read"
    /\ sub.connections < MaxSubConnections
    /\ \E outcome \in {"chunk", "done", "error"} :
        sub' = IF SignalAborted(sub.signal, sub.aborted) \/ outcome = "error"
               THEN SubCaught(sub)
               ELSE IF outcome = "done"
               THEN SubLoop(sub)
               ELSE IF sub.callbacks >= MaxCallbacks
               THEN sub
               ELSE LET called == [sub EXCEPT !.callbacks = @ + 1]
                    IN IF SignalAborted(called.abortController, called.aborted)
                       THEN SubLoop(called)
                       ELSE called
    /\ UNCHANGED subFrame

\* the function subscribeToEvents returned is called:
\* abortController.abort(); abortController = new AbortController()
Unsubscribe ==
    /\ sub.pc \in {"fetch", "read", "stopped"}
    /\ sub.unsubscribed < MaxUnsubscribes
    /\ sub' = [sub EXCEPT !.aborted = @ \cup {sub.abortController},
                          !.abortController = @ + 1,
                          !.unsubscribed = @ + 1]
    /\ UNCHANGED subFrame

SubNext == SubFetchReturn \/ SubReadReturn \/ Unsubscribe

SubSpec == SubInit /\ [][SubNext]_vars

\* ------------------------------------------------------ ServiceWorkerWallet

RequestTypes == {"GET_ADDRESS", "SETTLE"}
Requests == 1 .. MaxRequests

\* the messages the service worker posts for a request of the given type; from
\* is the request the worker is answering, which the message does not carry
ResponsesTo(r, type) ==
    { [from |-> r, success |-> FALSE, type |-> "ERROR"] } \cup
    ( IF type = "SETTLE"
      THEN { [from |-> r, success |-> TRUE, type |-> t] :
                t \in {"SETTLE_EVENT", "SETTLE_SUCCESS"} }
      ELSE { [from |-> r, success |-> TRUE, type |-> "ADDRESS"] } )

NewRequest(type) ==
    [ type |-> type, state |-> "new", listener |-> FALSE, settledBy |-> 0,
      callbacks |-> 0 ]

\* messageHandler of sendMessage: the listener is removed, then the promise is
\* rejected for an error response and resolved with any other message
sendMessageHandler(q, msg) ==
    [q EXCEPT !.listener = FALSE,
              !.state = IF msg.success THEN "resolved" ELSE "rejected",
              !.settledBy = msg.from]

\* messageHandler of settle
settleHandler(q, msg) ==
    IF ~msg.success
    THEN [q EXCEPT !.listener = FALSE, !.state = "rejected", !.settledBy = msg.from]
    ELSE IF msg.type = "SETTLE_EVENT"
    THEN [q EXCEPT !.callbacks = @ + 1]
    ELSE IF msg.type = "SETTLE_SUCCESS"
    THEN [q EXCEPT !.listener = FALSE, !.state = "resolved", !.settledBy = msg.from]
    ELSE q

\* a 'message' event on navigator.serviceWorker runs every registered listener
Dispatch(requests, msg) ==
    [ r \in Requests |->
        IF ~requests[r].listener THEN requests[r]
        ELSE IF requests[r].type = "SETTLE"
        THEN settleHandler(requests[r], msg)
        ELSE sendMessageHandler(requests[r], msg) ]

SwwInit ==
    /\ SettleIdle
    /\ fin = Off /\ fft = Off /\ gen = Off /\ reg = Off
    /\ two = Off /\ mat = Off /\ prs = Off /\ snd = Off /\ bal = Off
    /\ dfl = Off /\ sub = Off
    /\ \E serviceWorker \in BOOLEAN, types \in [Requests -> RequestTypes] :
          sww = [ pc |-> "on", serviceWorker |-> serviceWorker,
                  requests |-> [r \in Requests |-> NewRequest(types[r])],
                  owed |-> {}, events |-> 0 ]

swwFrame == << settleVars, fin, fft, gen, reg, two, mat, prs, snd, bal, dfl, sub >>

\* sendMessage(message): throws without a service worker, otherwise registers
\* its listener and posts the message
SendMessage(r) ==
    /\ sww.requests[r].type # "SETTLE"
    /\ sww.requests[r].state = "new"
    /\ sww' = IF ~sww.serviceWorker
              THEN [sww EXCEPT !.requests[r].state = "rejected"]
              ELSE [sww EXCEPT !.requests[r].state = "pending",
                               !.requests[r].listener = TRUE,
                               !.owed = @ \cup {r}]
    /\ UNCHANGED swwFrame

\* settle(params, callback): registers its listener, then posts the message or
\* rejects with 'Service worker not initialized'
SwwSettle(r) ==
    /\ sww.requests[r].type = "SETTLE"
    /\ sww.requests[r].state = "new"
    /\ sww' = IF sww.serviceWorker
              THEN [sww EXCEPT !.requests[r].state = "pending",
                               !.requests[r].listener = TRUE,
                               !.owed = @ \cup {r}]
              ELSE [sww EXCEPT !.requests[r].state = "rejected",
                               !.requests[r].listener = TRUE]
    /\ UNCHANGED swwFrame

\* the service worker posts a message for a request it has received: the one
\* response of the request, or an event or the outcome of a settlement
WorkerMessage ==
    /\ \E r \in sww.owed : \E msg \in ResponsesTo(r, sww.requests[r].type) :
        /\ msg.type = "SETTLE_EVENT" => sww.events < MaxSettleEvents
        /\ sww' = [sww EXCEPT
                     !.requests = Dispatch(@, msg),
                     !.owed = IF msg.type = "SETTLE_EVENT" THEN @ ELSE @ \ {r},
                     !.events = IF msg.type = "SETTLE_EVENT" THEN @ + 1 ELSE @]
    /\ UNCHANGED swwFrame

SwwNext ==
    \/ \E r \in Requests : SendMessage(r)
    \/ \E r \in Requests : SwwSettle(r)
    \/ WorkerMessage

SwwSpec == SwwInit /\ [][SwwNext]_vars

\* ----------------------------------------------------- derived histories

IsRoundCall(x) ==
    /\ x.kind = "call"
    /\ x.name \in { "registerInputsForNextRound", "registerOutputsForNextRound",
                    "submitTreeNonces", "submitTreeSignatures",
                    "submitSignedForfeitTxs" }
IsCall(x) == x.kind = "call"
IsReturn(x) == x.kind = "return"
IsEvent(x) == x.kind = "event"
Names(sq) == [i \in 1..Len(sq) |-> sq[i].name]
Types(sq) == [i \in 1..Len(sq) |-> sq[i].type]

\* a provider call awaited by the body of settle was rejected, or the read of
\* the stream failed
BodyRejected ==
    \/ error = "stream"
    \/ \E i \in 1..Len(trace) : trace[i].kind = "return" /\ ~trace[i].ok
SigningStartAccepted ==
    \E i \in 1..Len(trace) : trace[i].kind = "event" /\ trace[i].name = SigningStart
Registered ==
    \E i \in 1..Len(trace) : trace[i] = Return("registerOutputsForNextRound", TRUE)
\* an event is read from the stream in this step
Read == delivered' = delivered + 1

\* ----------------------------------------------------------------- claims

\* C1: settle returns only from a Finalized event accepted after SigningStart,
\* SigningNoncesGenerated and Finalization were handled in exactly that order,
\* and the value returned is the roundTxid of that Finalized event.
C1_ReturnsOnlyAfterFullSequence ==
    pc = "done" =>
        /\ Types(handled) = StepSequence
        /\ Names(SelectSeq(trace, IsEvent)) = StepSequence
        /\ cur = handled[4]
        /\ result = cur.roundTxid
        /\ result \in Txids
\* a successful settlement whose stream also held an event that was dropped
C1_Witness == pc = "done" /\ result = "bb" /\ delivered = 5

\* C2 as stated: a Failed event in whatever state (also before SigningStart)
\* makes settle throw the event's reason and stops the ping loop.
C2_FailedAlwaysAborts ==
    [][(Read /\ cur'.type = Failed) =>
          (pc' = "failed" /\ error' = cur'.reason /\ ~interval')]_vars
\* C2 amended: a Failed event read once step is defined makes settle throw the
\* event's reason with the ping loop stopped; a Failed event read while step
\* is still undefined is ignored and changes nothing of the settlement.
C2_FailedAbortsOnceStepDefined ==
    [][(Read /\ cur'.type = Failed) =>
          IF step = "undefined"
          THEN /\ pc' = "next"
               /\ UNCHANGED << step, sessionVars, timerVars, pending, trace,
                               handled, result, error >>
          ELSE /\ pc' = "failed"
               /\ error' = cur'.reason
               /\ ~interval'
               /\ ~pingRunning'
               /\ UNCHANGED << step, sessionVars, result >>]_vars
\* settle threw the reason of a Failed event that followed SigningStart
C2_Witness ==
    /\ pc = "failed"
    /\ cur.type = Failed
    /\ error = "timeout"
    /\ Types(handled) = << SigningStart >>

\* C3 as stated: whenever settle has returned or thrown, no ping interval is
\* still active.
C3_NoTimerAfterExit == pc \in {"done", "failed"} => ~interval

\* C4: an event of the four-step sequence that is not the one expected next
\* is dropped: step, signing session and provider calls are unchanged.
C4_Expected ==
    IF Len(handled) < 4 THEN StepSequence[Len(handled) + 1] ELSE "none"
C4_OutOfOrderDropped ==
    [][(Read /\ cur'.type \in SequenceTypes /\ cur'.type # C4_Expected) =>
          /\ pc' = "next"
          /\ UNCHANGED << step, sessionVars, pending, trace, handled, result,
                          error >>]_vars
\* an early Finalization was read after SigningStart and the loop went on
C4_Witness ==
    /\ cur.type = Finalization
    /\ Types(handled) = << SigningStart >>
    /\ step = SigningStart
    /\ pc = "next"

\* C5 as stated: a batch_started, batch_tree or batch_tree_signature event
\* leaves the settlement step unchanged.
C5_BatchEventKeepsStep ==
    [][(Read /\ cur'.type \in BatchTypes) => step' = step]_vars

\* C6: in a run that returns, the provider calls of the round are
\* registerInputs, registerOutputs (with the requestId returned),
\* submitTreeNonces, submitTreeSignatures, submitSignedForfeitTxs, once each
\* and in that order, and Finalized is consumed after the last has completed.
C6_ProviderCallOrder ==
    pc = "done" =>
        LET calls == SelectSeq(trace, IsRoundCall)
            n == Len(trace)
        IN /\ Names(calls) = << "registerInputsForNextRound",
                                "registerOutputsForNextRound",
                                "submitTreeNonces", "submitTreeSignatures",
                                "submitSignedForfeitTxs" >>
           /\ requestId \in RequestIds
           /\ calls[2].arg = requestId
           /\ trace[n] = Accept(cur)
           /\ cur.type = Finalized
           /\ \E i \in 1..(n - 1) : trace[i] = Return("submitSignedForfeitTxs", TRUE)
           /\ \A i \in 1..n : trace[i].kind = "return" => trace[i].ok
\* a run that returned after registering under the second request id
C6_Witness == pc = "done" /\ requestId = "req2" /\ pingsSent = 1

\* C7 as stated: once any provider call has been rejected, a ping included,
\* the settlement never goes on to a later step.
C7_AnyRejectionAborts ==
    [][(pingRejected \/ BodyRejected) =>
          (step' = step /\ pc' \in {pc, "failed"})]_vars
\* C7 amended: a rejected registerInputs, registerOutputs, getInfo,
\* submitTreeNonces, submitTreeSignatures, getVirtualCoins or
\* submitSignedForfeitTxs, or a failed read of the stream, makes settle throw
\* with nothing done after the rejection; a rejected ping only stops the ping
\* loop.
C7_BodyRejectionAborts ==
    /\ BodyRejected =>
          /\ pc = "failed"
          /\ pending = "none"
          /\ error \in {"provider", "stream"}
          /\ error = "provider" => ~trace[Len(trace)].ok
    /\ pingRejected => (~interval /\ ~pingRunning)
\* a ping was rejected, the settlement went on, and a later call was rejected
C7_Witness ==
    /\ pingRejected
    /\ pc = "failed"
    /\ trace # << >>
    /\ trace[Len(trace)] = Return("submitSignedForfeitTxs", FALSE)

\* C8: an event is read from the stream only when every side effect of the
\* event before it has completed: no provider call of a handler is pending,
\* every call has returned, and step is the type of the last handled event.
C8_SequentialHandling ==
    [][Read =>
          /\ pc = "next"
          /\ pending = "none"
          /\ Len(SelectSeq(trace, IsCall)) = Len(SelectSeq(trace, IsReturn))
          /\ Len(SelectSeq(trace, IsEvent)) = Len(handled)
          /\ (handled # << >> /\ step \notin BatchTypes) =>
                step = handled[Len(handled)].type]_vars
\* the handler of a second accepted event is awaiting its provider call
C8_Witness == pending = "submitTreeSignatures" /\ delivered >= 3

\* C9: a ping is started only after registerOutputsForNextRound succeeded,
\* with the requestId registerInputsForNextRound returned, and never once a
\* SigningStart event has been accepted.
C9_PingWindow ==
    [][pingsSent' # pingsSent =>
          /\ Registered
          /\ requestId \in RequestIds
          /\ pingIds' = {requestId}
          /\ ~SigningStartAccepted]_vars
\* pings were sent for the request and then SigningStart was accepted
C9_Witness ==
    /\ pingsSent = 2
    /\ pingIds = {"req2"}
    /\ SigningStartAccepted
    /\ ~interval

\* C10 as stated: when the stream has delivered SigningStart,
\* SigningNoncesGenerated, Finalization and Finalized in that order, with no
\* Failed event, no failed validation and no rejected provider call, settle
\* has returned the roundTxid of the Finalized event.
C10_HappyPathReturns ==
    (/\ progress = 4
     /\ ~failedSeen
     /\ ~BodyRejected
     /\ ~pingRejected
     /\ error # "validation") =>
        (pc = "done" /\ result \in Txids)

\* C11 as stated: once the caller's cancellation signal has fired, no further
\* ping is started, no further event is consumed, and settle only moves to
\* its exit reporting Cancelled.
C11_CancelStopsSettlement ==
    [][cancelled =>
          /\ pingsSent' = pingsSent
          /\ delivered' = delivered
          /\ pc' # pc => (pc' = "failed" /\ error' = "Cancelled")]_vars

\* C12 as stated: when settle has exited, the cosigner secret key generated
\* for the settlement has been zeroised.
C12_SecretsZeroisedAtExit ==
    pc \in {"done", "failed"} => vtxoTreeSigningKey # "live"

\* C13: the signing session is created and asked for its nonces by an accepted
\* SigningStart, and setAggregatedNonces and sign are called only on that
\* session, after submitTreeNonces has returned and the session was assigned;
\* settle never throws "Signing session not found".
C13_SessionOrder ==
    [][/\ error' # "Signing session not found"
       /\ sessionStage' # sessionStage =>
            \/ /\ sessionStage = "none"
               /\ sessionStage' = "getNonces"
               /\ signingSession = "undefined"
               /\ cur'.type = SigningStart
            \/ /\ sessionStage = "getNonces"
               /\ sessionStage' = "sign"
               /\ signingSession = "present"
               /\ cur'.type = SigningNoncesGenerated
               /\ \E i \in 1..Len(trace) :
                     trace[i] = Return("submitTreeNonces", TRUE)]_vars
\* a settlement returned after its session had signed
C13_Witness ==
    /\ sessionStage = "sign"
    /\ signingSession = "present"
    /\ pc = "done"
    /\ delivered = 4

\* an await of the generator settled in this step with outcome o
GenSettled(o) ==
    /\ Len(gen'.log) = Len(gen.log) + 1
    /\ gen'.log[Len(gen'.log)] = o
GenFailures == {"bad_status", "null_body", "network_error"}

\* C14 as stated: whenever a connection ends or fails while the signal is not
\* aborted, getEventStream opens a new connection.
C14_ReconnectsOnEndOrFailure ==
    [][(\E o \in GenFailures \cup {"done"} : GenSettled(o)) =>
          (gen'.connections = gen.connections + 1 /\ gen'.pc = "fetch")]_vars
\* C14 amended: when a connection ends (read reports done) while the signal is
\* not aborted a new connection is opened and nothing is thrown; when a
\* connection fails (fetch rejected, bad status, null body, rejected read) the
\* error is thrown to the consumer and no connection is opened, then or later.
C14_ReconnectsOnEndOnly ==
    [][/\ GenSettled("done") =>
            /\ gen'.connections = gen.connections + 1
            /\ gen'.pc = "fetch"
            /\ gen'.yielded = gen.yielded
       /\ (\E o \in GenFailures : GenSettled(o)) =>
            /\ gen'.pc = "threw"
            /\ gen'.connections = gen.connections
       /\ gen.pc = "threw" => gen' = gen]_vars
\* an event sent on a second connection was yielded to the consumer
C14_Witness ==
    /\ gen.connections = 2
    /\ \E i \in 1..Len(gen.yielded) : gen.yielded[i].conn = 2
    /\ \E i \in 1..Len(gen.yielded) : gen.yielded[i].conn = 1

\* a caller input the handler finds among the wallet's virtual coins, and one
\* it does not
IsVtxoInput(input) == ~input.note /\ Found(fin.vtxos, input)
IsBoardingInput(input) == ~input.note /\ ~Found(fin.vtxos, input)
Submitted == fin.pc = "submitted"

C16_SignsEveryBoardingInput ==
    (Submitted /\ fin.submitted[1].signedRoundTx # << >>) =>
        LET tx == fin.submitted[1].signedRoundTx[1]
            boarding == { i \in 1..Len(fin.inputs) : IsBoardingInput(fin.inputs[i]) }
        IN /\ \A i \in boarding :
                \E j \in tx.signed :
                    /\ tx.inputs[j].txid = fin.inputs[i].txid
                    /\ tx.inputs[j].index = fin.inputs[i].vout
           /\ Cardinality(tx.signed) = Cardinality(boarding)

Built == fft.pc \in {"built", "signed"}

\* C17: output 0 of the transaction buildForfeitTx returns has amount
\* vtxoAmount + connectorAmount - feeAmount, for every combination of amounts.
C17_ServerOutputNetOfFee ==
    Built =>
        fft.tx[1].outputs[1].amount =
            fft.p.vtxoAmount + fft.p.connectorAmount - fft.p.feeAmount

\* C18: input 0 (the connector) always has sequence 0xffffffff; input 1 (the
\* vtxo) has sequence 0xfffffffe iff a non-zero locktime was supplied, and
\* 0xffffffff otherwise.
C18_InputSequences ==
    Built =>
        LET tx == fft.tx[1]
            locked == fft.p.txLocktime # << >> /\ fft.p.txLocktime[1] > 0
        IN /\ tx.inputs[1].sequence = "0xffffffff"
           /\ tx.inputs[2].sequence = "0xfffffffe" <=> locked
           /\ ~locked => tx.inputs[2].sequence = "0xffffffff"
\* a forfeit built with a non-zero locktime, and one with locktime 0 supplied
C18_Witness ==
    /\ Built
    /\ fft.p.txLocktime = << 1 >>
    /\ fft.tx[1].inputs[2].sequence = "0xfffffffe"
    /\ fft.tx[1].inputs[1].sequence = "0xffffffff"

\* C19: buildForfeitTx returns a version-3 transaction with exactly two inputs,
\* (connector, vtxo), and exactly two outputs, (serverScript output, zero-value
\* Pay-to-Anchor); only the vtxo input carries a sighash annotation (DEFAULT),
\* and the client's signature goes on input 1 alone.
C19_ForfeitShape ==
    Built =>
        LET tx == fft.tx[1]
        IN /\ tx.version = 3
           /\ Len(tx.inputs) = 2
           /\ tx.inputs[1].txid = fft.p.connectorInput.txid
           /\ tx.inputs[1].index = fft.p.connectorInput.vout
           /\ tx.inputs[1].witnessUtxo =
                [script |-> fft.p.connectorPkScript, amount |-> fft.p.connectorAmount]
           /\ tx.inputs[2].txid = fft.p.vtxoInput.txid
           /\ tx.inputs[2].index = fft.p.vtxoInput.vout
           /\ tx.inputs[2].witnessUtxo =
                [script |-> fft.p.vtxoPkScript, amount |-> fft.p.vtxoAmount]
           /\ Len(tx.outputs) = 2
           /\ tx.outputs[1].script = fft.p.serverPkScript
           /\ tx.outputs[2] = [script |-> "51024e73", amount |-> 0]
           /\ tx.inputs[1].sighashType = "none"
           /\ tx.inputs[2].sighashType = "DEFAULT"
           /\ ~tx.inputs[1].signed
           /\ tx.inputs[1].tapLeafScript = "none"
           /\ fft.pc = "signed" => tx.inputs[2].signed
\* a built forfeit was signed by the client
C19_Witness ==
    /\ fft.pc = "signed"
    /\ fft.tx[1].inputs[2].signed
    /\ fft.tx[1].inputs[2].tapLeafScript = "forfeit"
    /\ fft.p.vtxoInput.txid = "b"

\* C20: registerInputsForNextRound forwards every input: each note unchanged
\* as a note, each structured input with its outpoint and tapscripts; notes
\* and vtxo inputs of the request add up to the caller's inputs, and no input
\* makes the call fail.
C20_ForwardsEveryInput ==
    reg.pc # "called" =>
        /\ reg.error # "TypeError"
        /\ reg.request # << >> =>
            LET r == reg.request[1]
            IN /\ Len(r.notes) + Len(r.inputs) = Len(reg.inputs)
               /\ r.notes = Texts(SelectSeq(reg.inputs, IsNote))
               /\ r.inputs = ProtoInputs(SelectSeq(reg.inputs, LAMBDA x : ~IsNote(x)))

\* what call i sees of its own state
View(m, i) == [f \in Locals |-> Get(m, i, f)]

\* C21: two settle calls on one wallet share no mutable settlement state: a
\* step of one call (an event it handles, a return, a ping) never changes the
\* other's key, step, signing session or ping timer, and their keys differ.
C21_NoSharedSettlementState ==
    [][\A i \in SettleIds :
          /\ two'.actor # i => View(two'.mem, i) = View(two.mem, i)
          /\ \A j \in SettleIds \ {i} :
                Get(two'.mem, i, "vtxoTreeSigningKey") # << >> =>
                    Get(two'.mem, i, "vtxoTreeSigningKey") #
                        Get(two'.mem, j, "vtxoTreeSigningKey")]_vars
\* call 2 is awaiting its nonces submission after SigningStart while call 1, in
\* the same round, still has its timer running and no step
C21_Witness ==
    /\ Get(two.mem, 2, "pc") = "next"
    /\ Get(two.mem, 2, "step") = SigningNoncesGenerated
    /\ ~Get(two.mem, 2, "interval")
    /\ Get(two.mem, 1, "pc") = "next"
    /\ Get(two.mem, 1, "step") = "undefined"
    /\ Get(two.mem, 1, "interval")
    /\ Get(two.mem, 1, "signingSession") = "undefined"

RECURSIVE SumLen(_)
SumLen(sq) == IF sq = << >> THEN 0 ELSE Len(Head(sq)) + SumLen(Tail(sq))
RECURSIVE EncodedSize(_)
EncodedSize(matrix) ==
    IF matrix = << >> THEN 0
    ELSE 4 + Len(Head(matrix)) + SumLen(Head(matrix)) + EncodedSize(Tail(matrix))

\* C22: the matrix codec round-trips: for a matrix whose cells are empty or
\* exactly cellLength bytes, decodeMatrix(encodeMatrix(m), cellLength) = m, and
\* the encoding is a little-endian u32 row count, then per row a u32 length and
\* per cell a presence byte followed by the cell's bytes when present.
C22_MatrixRoundTrip ==
    /\ mat.pc \in {"encoded", "decoded"} =>
        /\ Len(mat.bytes) = 4 + EncodedSize(mat.matrix)
        /\ SubSeq(mat.bytes, 1, 4) = << Len(mat.matrix), 0, 0, 0 >>
        /\ mat.matrix # << >> =>
             /\ SubSeq(mat.bytes, 5, 8) = << Len(mat.matrix[1]), 0, 0, 0 >>
             /\ mat.matrix[1] # << >> =>
                  mat.bytes[9] = IF mat.matrix[1][1] = << >> THEN 0 ELSE 1
    /\ mat.pc = "decoded" =>
        /\ mat.decoded[1].error = "none"
        /\ mat.decoded[1].matrix = mat.matrix
\* a two-row matrix of 66-byte nonces with an absent cell after a present one
\* went through the codec
C22_Witness ==
    /\ mat.pc = "decoded"
    /\ mat.cellLength = 66
    /\ Len(mat.matrix) = 2
    /\ Len(mat.matrix[1]) = 2
    /\ Len(mat.matrix[1][1]) = 66
    /\ mat.matrix[1][2] = << >>
    /\ Len(mat.matrix[2]) = 1

\* the events of a byte stream: its complete lines that are records with a
\* known key, in order
LinesOf(bytes) == SubSeq(Split(bytes), 1, Len(Split(bytes)) - 1)
IsEventLine(line) == \E k \in 1..Len(line) : line[k] = "a"
EventsOf(bytes) == SelectSeq(LinesOf(bytes), IsEventLine)
\* what the generator yielded from its current connection
YieldedNow ==
    LET on == SelectSeq(gen.yielded, LAMBDA y : y.conn = gen.connections)
    IN [k \in 1..Len(on) |-> on[k].line]
IsPrefix(a, b) == Len(a) <= Len(b) /\ SubSeq(b, 1, Len(a)) = a

\* C23: the events getEventStream yields depend only on the newline-delimited
\* bytes received on the connection, not on their split into chunks: every
\* complete line gives at most one event, in line order, and a line split
\* across chunks is parsed once, whole.
C23_ChunkingIndependent ==
    gen.pc \in {"read", "yield", "done", "threw"} =>
        /\ IsPrefix(YieldedNow, EventsOf(gen.received))
        /\ gen.pc = "read" => YieldedNow = EventsOf(gen.received)
        /\ gen.pc = "yield" =>
             YieldedNow \o SelectSeq(gen.rest, IsEventLine) =
                EventsOf(gen.received)
\* a record that arrived in two chunks was yielded once, whole
C23_Witness ==
    /\ gen.pc = "yield"
    /\ gen.reads = 2
    /\ gen.connections = 1
    /\ gen.received = << "a", "u", "nl" >>
    /\ YieldedNow = << << "a", "u" >> >>

C25_FeeRateFloor ==
    prs.pc = "parsed" =>
        /\ 1000 * prs.parsed <= prs.server
        /\ prs.server < 1000 * prs.parsed + 1000
\* 1999 sats/kvB was parsed as 1 sat/vB
C25_Witness == prs.pc = "parsed" /\ prs.server = 1999 /\ prs.parsed = 1

\* C26: with an Ark provider configured, sendBitcoin follows the destination
\* address: a payment to an on-chain address goes through the on-chain
\* provider (getCoins, broadcastTransaction), a payment to an Ark address
\* through the Ark server (getVirtualCoins, submitVirtualTx).
C26_PathFollowsAddress ==
    (snd.arkProvider /\ snd.calls # << >>) =>
        \A k \in 1..Len(snd.calls) :
            snd.calls[k] \in
                IF snd.p.address = "onchain"
                THEN {"onchainProvider.getCoins", "onchainProvider.broadcastTransaction"}
                ELSE {"arkProvider.getVirtualCoins", "arkProvider.submitVirtualTx"}

\* C27: an amount <= 0 is rejected with 'Amount must be positive' and an
\* amount with 0 < amount < 546 with 'Amount is below dust limit', both before
\* any provider call.
C27_AmountChecksFirst ==
    snd.pc # "called" =>
        /\ snd.p.amount <= 0 =>
             (snd.pc = "threw" /\ snd.error = "Amount must be positive"
                /\ snd.calls = << >>)
        /\ (0 < snd.p.amount /\ snd.p.amount < 546) =>
             (snd.pc = "threw" /\ snd.error = "Amount is below dust limit"
                /\ snd.calls = << >>)
        /\ snd.error \in {"Amount must be positive", "Amount is below dust limit"}
             => snd.calls = << >>
\* a payment of 545 sats was rejected as dust
C27_Witness ==
    /\ snd.pc = "threw"
    /\ snd.p.amount = 545
    /\ snd.error = "Amount is below dust limit"
    /\ snd.arkProvider

\* C28: the balance getBalance returns is consistent with the coins the
\* providers reported: onchain.total = onchain.confirmed + onchain.unconfirmed
\* and is the sum of all reported coins, offchain.total = offchain.settled +
\* offchain.pending and is the sum of the reported vtxos that are neither spent
\* nor swept, total = onchain.total + offchain.total, and every off-chain
\* figure is 0 when no Ark provider is configured.
RECURSIVE SumOf(_, _)
SumOf(seq, field) ==
    IF seq = << >> THEN 0 ELSE Head(seq)[field] + SumOf(Tail(seq), field)

Unspent(vtxo) == ~vtxo.spent /\ ~vtxo.swept

C28_BalanceConsistent ==
    bal.pc = "returned" =>
        LET b == bal.balance IN
        /\ b.onchain.total = b.onchain.confirmed + b.onchain.unconfirmed
        /\ b.onchain.total = SumOf(bal.coins, "value")
        /\ b.onchain.confirmed =
               SumOf(SelectSeq(bal.coins, LAMBDA c : c.confirmed), "value")
        /\ b.offchain.total = b.offchain.settled + b.offchain.pending
        /\ b.offchain.total = SumOf(SelectSeq(bal.served, Unspent), "amount")
        /\ b.total = b.onchain.total + b.offchain.total
        /\ ~bal.arkProvider =>
               /\ b.offchain.swept = 0 /\ b.offchain.settled = 0
               /\ b.offchain.pending = 0 /\ b.offchain.total = 0
               /\ \A k \in DOMAIN bal.calls :
                      bal.calls[k] # "arkProvider.getVirtualCoins"

C28_Witness ==
    /\ bal.pc = "returned"
    /\ bal.arkProvider
    /\ \E k \in DOMAIN bal.served : bal.served[k].swept /\ ~bal.served[k].spent
    /\ \E k \in DOMAIN bal.served : Unspent(bal.served[k])
    /\ bal.balance.offchain.swept > 0
    /\ bal.balance.offchain.total > 0
    /\ bal.balance.onchain.confirmed > 0
    /\ bal.balance.onchain.unconfirmed > 0

\* C29: when the validation of a SigningStart event fails, no signing session
\* is created, submitTreeNonces is not called, the step does not advance and
\* settle fails with the validation error; submitTreeNonces is called for a
\* SigningStart event only in a step that does not throw.
C29_ValidationBeforeSigning ==
    [][/\ (/\ pc = "next"
           /\ cur'.type = SigningStart
           /\ error' = "validation") =>
              /\ pc' = "failed"
              /\ sessionStage' = sessionStage
              /\ signingSession' = signingSession
              /\ step' = step
              /\ pending' = pending
              /\ trace' = Append(trace, Accept(cur'))
       /\ (/\ pc = "next"
           /\ Len(trace') > Len(trace)
           /\ trace'[Len(trace')] = Call("submitTreeNonces", cur'.id)) =>
              /\ error' = error
              /\ pc' # "failed"
              /\ trace'[Len(trace') - 1] = Accept(cur')]_vars

C29_Witness ==
    /\ pc = "failed"
    /\ error = "validation"
    /\ cur.type = SigningStart
    /\ step = "undefined"
    /\ sessionStage = "none"
    /\ signingSession = "undefined"
    /\ trace[Len(trace)] = Accept(cur)
    /\ \A k \in DOMAIN trace : trace[k].name # "submitTreeNonces"

\* C30: on Finalization validateConnectorsTree is called at most once, only
\* when some caller input already reached is a vtxo, and before the first
\* forfeit transaction is built or signed: a forfeit is signed only once the
\* connectors tree has passed validation, and a failed validation leaves no
\* forfeit signed and nothing submitted.
C30_ConnectorsValidatedOnce ==
    fin.pc \in {"loop", "threw", "submitted"} =>
        /\ fin.validations <= 1
        /\ fin.validations = 1 =>
               \E k \in 1 .. Len(fin.inputs) : k <= fin.i /\ IsVtxoInput(fin.inputs[k])
        /\ fin.connectorsTreeValid => fin.validations = 1
        /\ fin.signedForfeits # << >> =>
               fin.connectorsTreeValid /\ fin.validations = 1
        /\ fin.error = "invalid connectors tree" =>
               /\ fin.signedForfeits = << >>
               /\ fin.submitted = << >>
               /\ ~fin.connectorsTreeValid
        /\ (fin.pc = "submitted"
              /\ \E k \in 1 .. Len(fin.inputs) : IsVtxoInput(fin.inputs[k])) =>
               fin.validations = 1

C30_Witness ==
    /\ fin.pc = "submitted"
    /\ Len(fin.inputs) = 2
    /\ \A k \in 1 .. 2 : IsVtxoInput(fin.inputs[k])
    /\ Len(fin.signedForfeits) = 2
    /\ fin.validations = 1
    /\ fin.connectorsTreeValid

Invocations(tr, name) ==
    Cardinality({ k \in DOMAIN tr : tr[k].kind = "call" /\ tr[k].name = name })

C32_HandlersRunOnce ==
    [][/\ \A name \in {"submitTreeNonces", "submitTreeSignatures",
                       "submitSignedForfeitTxs"} : Invocations(trace', name) <= 1
       /\ sessionStage = "sign" => sessionStage' = "sign"
       /\ sessionStage = "getNonces" => sessionStage' \in {"getNonces", "sign"}]_vars

C32_Witness ==
    /\ pc = "done"
    /\ delivered >= 5
    /\ sessionStage = "sign"
    /\ \A name \in {"submitTreeNonces", "submitTreeSignatures",
                    "submitSignedForfeitTxs"} : Invocations(trace, name) = 1

\* C33: the events settle acts on in one call (SigningStart,
\* SigningNoncesGenerated, Finalization, Finalized and Failed events that pass
\* their guard) all carry the same round id.
C33_HandledEventsOfOneRound ==
    \A j, k \in DOMAIN trace :
        (trace[j].kind = "event" /\ trace[k].kind = "event") =>
            trace[j].arg = trace[k].arg

\* C34: settle without params registers all boarding utxos followed by all
\* vtxos and a single output to the wallet's offchain address for the sum of
\* their values; without any input it fails with 'No inputs found' before
\* registerInputsForNextRound is called and before the ping timer is started.
DflRegistered == { k \in DOMAIN dfl.calls :
                  dfl.calls[k] = "arkProvider.registerInputsForNextRound" }

C34_DefaultParams ==
    /\ dfl.pc \in {"registerInputsForNextRound", "registerOutputsForNextRound",
                   "getInfo"} =>
          /\ Len(dfl.params.inputs) = Len(dfl.boarding) + Len(dfl.vtxos)
          /\ \A k \in DOMAIN dfl.boarding :
                dfl.params.inputs[k].outpoint = dfl.boarding[k].txid
          /\ \A k \in DOMAIN dfl.vtxos :
                dfl.params.inputs[Len(dfl.boarding) + k].outpoint = dfl.vtxos[k].txid
          /\ Len(dfl.params.outputs) = 1
          /\ dfl.params.outputs[1].address = "offchainAddress"
          /\ dfl.params.outputs[1].amount =
                SumOf(dfl.boarding, "value") + SumOf(dfl.vtxos, "value")
          /\ Len(dfl.params.inputs) > 0
    /\ DflRegistered # {} => Len(dfl.boarding) + Len(dfl.vtxos) > 0
    /\ dfl.interval => DflRegistered # {}
    /\ dfl.error = "No inputs found" =>
          /\ dfl.pc = "threw"
          /\ dfl.boarding = << >> /\ dfl.vtxos = << >>
          /\ DflRegistered = {}
          /\ ~dfl.interval

C34_Witness ==
    /\ dfl.pc = "getInfo"
    /\ Len(dfl.boarding) = 1
    /\ Len(dfl.vtxos) = 2
    /\ dfl.params.outputs[1].amount = 5

C34_WitnessNoInputs ==
    dfl.pc = "threw" /\ dfl.error = "No inputs found"

\* C35: when the event stream completes (which the loop sees only while it
\* waits for the next event, no Finalized event having been accepted), settle
\* throws 'Settlement failed' and returns no txid.
C35_StreamEndFails ==
    [][/\ (pc = "next" /\ pc' # "next" /\ ~Read /\ error' # "stream") =>
              /\ pc' = "failed"
              /\ error' = "Settlement failed"
              /\ result' = "none"
              /\ \A k \in DOMAIN trace' :
                    ~(trace'[k].kind = "event" /\ trace'[k].name = Finalized)
       /\ error = "Settlement failed" =>
              (pc' = "failed" /\ result' = "none")]_vars

C35_Witness ==
    /\ pc = "failed"
    /\ error = "Settlement failed"
    /\ result = "none"
    /\ step = Finalization
    /\ Types(handled) = << SigningStart, SigningNoncesGenerated, Finalization >>

\* C38: eventCallback is invoked exactly once for every event read from the
\* stream, with that event, in the step that reads it and before the event is
\* handled; events dropped as out of order and the final Finalized or Failed
\* event are included, and nothing else invokes it.
C38_CallbackPerEvent ==
    [][/\ Read => (notified'.count = notified.count + 1 /\ notified'.last = cur')
       /\ ~Read => notified' = notified
       /\ notified'.count = delivered']_vars

\* the callback has seen a dropped event and the Finalized event settle
\* returned from
C38_Witness ==
    /\ pc = "done"
    /\ notified.count = 5
    /\ notified.last.type = Finalized
    /\ Len(handled) = 4

\* C36: once the unsubscribe function has been called the subscription stops:
\* no new connection to /v1/events is opened and the callback is not invoked
\* on data of a later connection.
C36_UnsubscribeStops ==
    [][sub.unsubscribed > 0 => sub'.connections = sub.connections]_vars

\* C37: once the signal passed to getEventStream is aborted no new connection
\* is opened and no event is yielded any more.
C37_NothingAfterAbort ==
    [][gen.aborted =>
          /\ gen'.connections = gen.connections
          /\ gen'.yielded = gen.yielded]_vars

\* C39: in ServiceWorkerWallet the promise of a request is resolved or
\* rejected only by a message the service worker posted for that request.
C39_OwnResponseOnly ==
    \A r \in Requests :
        sww.requests[r].settledBy \in {0, r}

\* C40: in ServiceWorkerWallet the 'message' listener of a call is registered
\* exactly while its promise is pending: a call whose promise has resolved or
\* rejected has no listener left.
C40_NoListenerLeak ==
    \A r \in Requests :
        sww.requests[r].listener <=> sww.requests[r].state = "pending"

====
